---------------------------- MODULE Spec2Model ----------------------------
(***************************************************************************)
(* A model of pactole's combinatorial indexing engine                      *)
(* (src/src/pactole/combinations): the rank / unrank functions of the      *)
(* combinatorial number system, the BoundCombination value object, the     *)
(* LotteryCombination composite and their generate() sampling loops.       *)
(*                                                                         *)
(* Python values are represented as follows:                               *)
(*   list / tuple   a sequence                                             *)
(*   set            a set                                                  *)
(*   None           the empty sequence <<>>; an optional integer x is <<x>>*)
(*   dict           a sequence of [name, comp] records (insertion order)   *)
(*   an exception   the name of its class in the variable pc / the field   *)
(*                  err of a result                                        *)
(***************************************************************************)
EXTENDS Integers, Sequences, FiniteSets, TLC

VARIABLES
    pc,     \* position of the scenario: the operation that acted last
    ix,     \* combinatorial index scenario: inputs and results of rank / unrank
    bc,     \* the BoundCombination under construction / copy
    lc,     \* the composite (LotteryCombination) under test
    arg,    \* the argument handed to the last operation
    out,    \* what the last composite operation returned
    gen     \* the state of a generate(n, partitions) call

vars == <<pc, ix, bc, lc, arg, out, gen>>

None == <<>>
Some(x) == <<x>>

\* F(x), with x evaluated once (a local variable of the code)
Eval(F(_), x) == CHOOSE r \in {F(v) : v \in {x}} : TRUE

(***************************************************************************)
(* Bounds of the model.                                                    *)
(***************************************************************************)
MaxN == 5           \* largest universe size of the index scenario
MaxRank == 11       \* largest rank handed to unrank in the index scenario
MaxOffset == 2      \* offsets range over -1 .. MaxOffset
MaxStart == 1       \* bound scenario: start ranges over 0 .. MaxStart
MaxEnd == 2         \* bound scenario: end ranges over start .. MaxEnd
MaxCount == 2       \* bound scenario: count ranges over 0 .. MaxCount
MaxLen == 2         \* bound scenario: longest list of input values
MaxIntRank == 3     \* bound scenario: largest rank given as an int or in a pair
NumbersSize == 3    \* lottery scenario: size of the universe of "numbers"
NumbersCount == 2   \* lottery scenario: count of "numbers"
StarsSize == 3      \* lottery scenario: size of the universe of "stars"
StarsCount == 1     \* lottery scenario: count of "stars"
MaxDraws == 2       \* generate scenario: n ranges over 0 .. MaxDraws
MaxPartitions == 3  \* generate scenario: partitions ranges over 0 .. MaxPartitions
GenSize == 3        \* generate scenario: largest universe and count of a component

(***************************************************************************)
(* Helpers: Python's sorted(), min(), max().                               *)
(***************************************************************************)
Min2(a, b) == IF a <= b THEN a ELSE b
Max2(a, b) == IF a >= b THEN a ELSE b

SetMin(S) == CHOOSE x \in S : \A y \in S : x <= y

RECURSIVE SortedSet(_)
SortedSet(S) ==
    IF S = {} THEN <<>>
    ELSE LET m == SetMin(S) IN <<m>> \o SortedSet(S \ {m})

RECURSIVE InsertSorted(_, _)
InsertSorted(x, s) ==
    IF s = <<>> THEN <<x>>
    ELSE IF x <= Head(s) THEN <<x>> \o s
    ELSE <<Head(s)>> \o InsertSorted(x, Tail(s))

RECURSIVE Sorted(_)
Sorted(s) == IF s = <<>> THEN <<>> ELSE InsertSorted(Head(s), Sorted(Tail(s)))

Range(s) == {s[i] : i \in 1..Len(s)}

(***************************************************************************)
(* comb = cache(math.comb): raises ValueError on a negative argument,      *)
(* returns 0 when k > n, and the binomial coefficient otherwise.           *)
(***************************************************************************)
CombRaises(n, k) == n < 0 \/ k < 0

RECURSIVE CombProduct(_, _, _)
\* math.comb's value by the multiplicative formula: C(n,k) = prod (n-k+i)/i
CombProduct(n, k, i) ==
    IF i = 0 THEN 1 ELSE (CombProduct(n, k, i - 1) * (n - k + i)) \div i

comb(n, k) == IF k > n THEN 0 ELSE CombProduct(n, k, k)

(***************************************************************************)
(* get_combination_rank(combination, offset)                               *)
(***************************************************************************)
RankRaises(combination, offset) ==
    LET s == Sorted(combination) IN
    \E i \in 1..Len(s) :
        /\ s[i] - offset # i - 1
        /\ CombRaises(s[i] - offset, i)

RECURSIVE RankLoopShifted(_, _, _)
\* mutant: the binomial is taken of value + 1
RankLoopShifted(s, offset, i) ==
    IF i > Len(s) THEN 0
    ELSE LET value == s[i] - offset IN
         (IF value = i - 1 THEN 0 ELSE comb(value + 1, i))
             + RankLoopShifted(s, offset, i + 1)

RECURSIVE RankLoopFlat(_, _, _)
\* mutant: every value is counted as if it stood at the first position
RankLoopFlat(s, offset, i) ==
    IF i > Len(s) THEN 0
    ELSE LET value == s[i] - offset IN
         (IF value = i - 1 THEN 0 ELSE comb(value, 1)) + RankLoopFlat(s, offset, i + 1)

RECURSIVE RankLoop(_, _, _)
\* the for loop over enumerate(sorted(combination)), from 1-based position i
RankLoop(s, offset, i) ==
    IF i > Len(s) THEN 0
    ELSE LET value == s[i] - offset IN
         (IF value = i - 1 THEN 0 ELSE comb(value, i)) + RankLoop(s, offset, i + 1)

\* mutant: the offset is not subtracted from the values
get_combination_rank_no_offset(combination, offset) ==
    RankLoop(Sorted(combination), 0, 1)

get_combination_rank(combination, offset) ==
    RankLoop(Sorted(combination), offset, 1)

(***************************************************************************)
(* get_combination_from_rank(rank, length, offset)                         *)
(***************************************************************************)
UnrankRaises(rank, length) == rank < 0 \/ length < 0

RECURSIVE GrowLoopStrict(_, _, _, _, _)
\* mutant: the first loop stops one step early (b < rank instead of b <= rank)
GrowLoopStrict(val, binomial, b, rank, length) ==
    IF b < rank
    THEN GrowLoopStrict(val + 1, b, (b * (val + 1 + length)) \div (val + 1), rank, length)
    ELSE [val |-> val, binomial |-> binomial]

RECURSIVE GrowLoop(_, _, _, _, _)
\* while b <= rank: val += 1; binomial = b; b = (b * (val + length)) // val
GrowLoop(val, binomial, b, rank, length) ==
    IF b <= rank
    THEN GrowLoop(val + 1, b, (b * (val + 1 + length)) \div (val + 1), rank, length)
    ELSE [val |-> val, binomial |-> binomial]

RECURSIVE ShrinkLoop(_, _, _, _)
\* while binomial > rank: val -= 1; binomial = (binomial * val) // (val + index)
ShrinkLoop(val, binomial, rank, index) ==
    IF binomial > rank
    THEN ShrinkLoop(val - 1, (binomial * (val - 1)) \div (val - 1 + index), rank, index)
    ELSE [val |-> val, binomial |-> binomial]

RECURSIVE Repeat(_, _)
\* [x] * n, built element by element
Repeat(x, n) == IF n <= 0 THEN <<>> ELSE <<x>> \o Repeat(x, n - 1)

RECURSIVE IndexLoop(_, _, _, _, _, _)
\* for index in range(length - 1, 1, -1): ...; then combination[1], combination[0]
\* (combination[index] of the code is combination[index + 1] here)
IndexLoop(index, rank, binomial, val, offset, combination) ==
    IF index >= 2
    THEN LET rank1 == rank - binomial
             binomial1 == (binomial * (index + 1)) \div (val + index)
             sh == ShrinkLoop(val, binomial1, rank1, index)
         IN IndexLoop(index - 1, rank1, sh.binomial, sh.val, offset,
                      [combination EXCEPT ![index + 1] = val + index + offset])
    ELSE [[combination EXCEPT ![2] = val + 1 + offset]
              EXCEPT ![1] = rank - binomial + offset]

\* mutant: a single value is returned without the offset
get_combination_from_rank_plain(rank, length, offset) ==
    IF length = 0 THEN <<>>
    ELSE IF length = 1 THEN <<rank>>
    ELSE LET g == GrowLoop(0, 0, 1, rank, length) IN
         IndexLoop(length - 1, rank, g.binomial, g.val, offset,
                   Repeat(0, length))

get_combination_from_rank(rank, length, offset) ==
    IF length = 0 THEN <<>>
    ELSE IF length = 1 THEN <<rank + offset>>
    ELSE LET g == GrowLoop(0, 0, 1, rank, length) IN
         IndexLoop(length - 1, rank, g.binomial, g.val, offset,
                   Repeat(0, length))

(***************************************************************************)
(* Combination / BoundCombination objects.                                 *)
(*   object   [values (set), rank (optional int: _rank), start, end,       *)
(*             count, combinations]                                        *)
(*   a `values` argument                                                   *)
(*            [dict, drank, kind, items, int, obj]: kind is "none", "list",*)
(*            "int" or "comb" (another Combination, in obj); dict = TRUE   *)
(*            wraps it in a {values, rank} pair whose rank is drank        *)
(***************************************************************************)
DEFAULT_START == 1
DEFAULT_END == 50
DEFAULT_COUNT == 5

OrElse(opt, default) == IF opt = None THEN default ELSE opt[1]

NoneArg == [dict |-> FALSE, drank |-> None, kind |-> "none", items |-> <<>>,
            int |-> 0, obj |-> None]
ListArg(items) == [NoneArg EXCEPT !.kind = "list", !.items = items]
IntArg(r) == [NoneArg EXCEPT !.kind = "int", !.int = r]
CombArg(o) == [NoneArg EXCEPT !.kind = "comb", !.obj = Some(o)]
DictArg(v, r) == [v EXCEPT !.dict = TRUE, !.drank = r]

NoObject == [values |-> {}, rank |-> None, start |-> 0, end |-> 0, count |-> 0,
             combinations |-> 0]
Raise(e) == [err |-> e, obj |-> NoObject]
Return(o) == [err |-> "", obj |-> o]

\* Combination.values / Combination.get_values(start)
get_values(self, start) ==
    LET values == SortedSet(self.values) IN
    IF start = None \/ start[1] = self.start THEN values
    ELSE LET offset == start[1] - self.start IN
         [i \in 1..Len(values) |-> values[i] + offset]

\* Python's s[:count]
SliceTo(s, count) ==
    IF count >= 0 THEN SubSeq(s, 1, Min2(count, Len(s)))
    ELSE SubSeq(s, 1, Max2(Len(s) + count, 0))

\* mutant: only the lower bound is enforced
ClampLow(value, start, end) == Max2(value, start)

\* min(max(value, start), end)
Clamp(value, start, end) == Min2(Max2(value, start), end)

\* mutant: the rank given with the values is forgotten
CombinationInitNoRank(values, rank, start) ==
    [values |-> Range(values), rank |-> None, start |-> start]

\* Combination.__init__ reached from BoundCombination.__init__ with a list
CombinationInit(values, rank, start) ==
    [values |-> Range(values),
     rank |-> IF values = <<>> THEN None ELSE rank,
     start |-> start]

\* BoundCombination.__init__(values, rank, start, end, count, combinations)
BoundCombination(values, rank, start, end, count, combinations) ==
    LET start1 == OrElse(start, DEFAULT_START)
        end1 == OrElse(end, DEFAULT_END)
        count1 == OrElse(count, DEFAULT_COUNT)
        rank1 == IF values.dict /\ rank = None THEN values.drank ELSE rank
        finish(vals, rank3) ==
            LET cut == SliceTo(vals, count1)
                clamped == [i \in 1..Len(cut) |-> Clamp(cut[i], start1, end1)]
                base == CombinationInit(clamped, rank3, start1)
            IN Return([values |-> base.values, rank |-> base.rank,
                       start |-> base.start, end |-> end1, count |-> count1,
                       combinations |-> IF combinations = None
                                        THEN comb(end1 - start1 + 1, count1)
                                        ELSE combinations[1]])
    IN
    IF combinations = None /\ CombRaises(end1 - start1 + 1, count1)
    THEN Raise("ValueError")
    ELSE IF values.kind = "comb"
    THEN finish(get_values(values.obj[1], Some(start1)),
                IF rank1 = None THEN values.obj[1].rank ELSE rank1)
    ELSE IF values.kind = "int"
    THEN IF UnrankRaises(values.int, count1) THEN Raise("ValueError")
         ELSE finish(get_combination_from_rank(values.int, count1, start1),
                     IF rank1 # None THEN rank1 ELSE Some(values.int))
    ELSE IF values.kind = "none" \/ values.items = <<>>
    THEN IF rank1 # None
         THEN IF UnrankRaises(rank1[1], count1) THEN Raise("ValueError")
              ELSE finish(get_combination_from_rank(rank1[1], count1, start1), rank1)
         ELSE finish(<<>>, None)
    ELSE finish(values.items, rank1)

\* BoundCombination.copy(values, rank, start, end, count, combinations);
\* values = None is the absent argument
BoundCopy(self, values, rank, start, end, count, combinations) ==
    LET start1 == OrElse(start, self.start)
        end1 == OrElse(end, self.end)
        count1 == OrElse(count, self.count)
        combinations1 ==
            IF combinations = None /\ start1 = self.start /\ end1 = self.end
                                   /\ count1 = self.count
            THEN Some(self.combinations) ELSE combinations
        values1 == IF values = None
                   THEN ListArg(get_values(self, Some(start1)))
                   ELSE values[1]
        rank1 == IF values = None
                 THEN (IF self.rank # None THEN self.rank ELSE rank)
                 ELSE rank
    IN BoundCombination(values1, rank1, Some(start1), Some(end1), Some(count1),
                        combinations1)

\* Combination.rank: the value returned, and whether computing it raises
RankValue(self) ==
    IF self.rank = None
    THEN get_combination_rank(SortedSet(self.values), self.start)
    ELSE self.rank[1]

RankReadRaises(self) ==
    self.rank = None /\ RankRaises(SortedSet(self.values), self.start)

(***************************************************************************)
(* LotteryCombination: [components, winning_ranks].  components is the     *)
(* ordered dict _components, a sequence of [name, comp] records;           *)
(* winning_ranks is a function from tuples of lengths to prize ranks.      *)
(* Keyword arguments are a sequence of [name, value] records, value a      *)
(* `values` argument as above.                                             *)
(***************************************************************************)
Names(d) == [i \in 1..Len(d) |-> d[i].name]

HasKey(d, name) == \E i \in 1..Len(d) : d[i].name = name

\* d[name]
Lookup(d, name) == d[CHOOSE i \in 1..Len(d) : d[i].name = name].comp

\* mutant: the overrides are appended to the components, not merged into them
DictConcat(a, b) == a \o b

RECURSIVE DictMerge(_, _)
\* {**a, **b}: a's keys keep their place, b's values win, b's new keys follow
DictMerge(a, b) ==
    IF b = <<>> THEN a
    ELSE LET e == Head(b)
             a1 == IF HasKey(a, e.name)
                   THEN [i \in 1..Len(a) |-> IF a[i].name = e.name THEN e ELSE a[i]]
                   ELSE Append(a, e)
         IN DictMerge(a1, Tail(b))

\* mutant: the decoded components are left in decoding order
Unreversed(s) == s

\* dict(reversed(d.items()))
Reversed(s) == [i \in 1..Len(s) |-> s[Len(s) + 1 - i]]

\* isinstance(x, BoundCombination), x a `values` argument
IsBoundCombination(x) ==
    ~x.dict /\ x.kind = "comb" /\ "end" \in DOMAIN x.obj[1]

\* LotteryCombination.__init__(winning_ranks=, **components); the values of
\* components are `values` arguments, accepted only if BoundCombinations
LotteryCombination(winning_ranks, components) ==
    IF \E i \in 1..Len(components) : ~IsBoundCombination(components[i].comp)
    THEN [err |-> "TypeError", obj |-> <<>>]
    ELSE [err |-> "",
          obj |-> [components |-> [i \in 1..Len(components) |->
                                      [name |-> components[i].name,
                                       comp |-> components[i].comp.obj[1]]],
                   winning_ranks |-> winning_ranks]]

\* _create_combination(winning_ranks=, **components), components objects
create_combination(winning_ranks, components) ==
    LotteryCombination(winning_ranks,
        [i \in 1..Len(components) |->
            [name |-> components[i].name, comp |-> CombArg(components[i].comp)]])

RECURSIVE RankStepsForward(_, _, _, _)
\* mutant: the components are not reversed, the first one is the least significant
RankStepsForward(components, i, rank, multiplier) ==
    IF i = 0 THEN rank
    ELSE RankStepsForward(components, i - 1,
                   rank + RankValue(components[Len(components) + 1 - i].comp) * multiplier,
                   multiplier * components[Len(components) + 1 - i].comp.combinations)

RECURSIVE RankSteps(_, _, _, _)
\* for component in reversed(components): rank += component.rank * multiplier;
\* multiplier *= component.combinations      (i runs from the last component)
RankSteps(components, i, rank, multiplier) ==
    IF i = 0 THEN rank
    ELSE RankSteps(components, i - 1,
                   rank + RankValue(components[i].comp) * multiplier,
                   multiplier * components[i].comp.combinations)

\* LotteryCombination.rank
LotteryRank(self) == RankSteps(self.components, Len(self.components), 0, 1)

RECURSIVE Prod(_, _)
Prod(components, i) ==
    IF i = 0 THEN 1 ELSE Prod(components, i - 1) * components[i].comp.combinations

\* LotteryCombination.combinations
LotteryCombinations(self) ==
    IF self.components = <<>> THEN 0
    ELSE Prod(self.components, Len(self.components))

\* the value passed as copy(values=...): Python None is the absent argument
AsValues(v) == IF v.kind = "none" /\ ~v.dict THEN None ELSE Some(v)

\* LotteryCombination.get_components(**components): the comprehension copies
\* the named components in keyword order, the first failure ends it
get_components(self, kwargs) ==
    LET failed(made) == {i \in 1..Len(kwargs) : made[i].err # ""}
        collect(made) ==
            IF failed(made) # {}
            THEN [err |-> made[SetMin(failed(made))].err, comps |-> <<>>]
            ELSE [err |-> "",
                  comps |-> [i \in 1..Len(kwargs) |->
                                [name |-> kwargs[i].name, comp |-> made[i].obj]]]
    IN Eval(collect,
            [i \in 1..Len(kwargs) |->
                IF HasKey(self.components, kwargs[i].name)
                THEN BoundCopy(Lookup(self.components, kwargs[i].name),
                               AsValues(kwargs[i].value),
                               None, None, None, None, None)
                ELSE Raise("KeyError")])

RECURSIVE DecodeLoopNoCarry(_, _, _, _)
\* mutant: the integer is not divided before the next component takes its part
DecodeLoopNoCarry(components, i, combination, acc) ==
    IF i = 0 THEN [err |-> "", comps |-> acc]
    ELSE LET component == components[i].comp IN
         IF component.combinations = 0
         THEN [err |-> "ZeroDivisionError", comps |-> <<>>]
         ELSE LET next(made) ==
                      IF made.err # "" THEN [err |-> made.err, comps |-> <<>>]
                      ELSE DecodeLoopNoCarry(components, i - 1, combination,
                               Append(acc, [name |-> components[i].name,
                                            comp |-> made.obj]))
              IN Eval(next, BoundCopy(component,
                                Some(IntArg(combination % component.combinations)),
                                None, None, None, None, None))

RECURSIVE DecodeLoop(_, _, _, _)
\* for name, component in reversed(self._components.items()):
\*     components_[name] = component.copy(values=combination % component.combinations)
\*     combination = combination // component.combinations
DecodeLoop(components, i, combination, acc) ==
    IF i = 0 THEN [err |-> "", comps |-> acc]
    ELSE LET component == components[i].comp IN
         IF component.combinations = 0
         THEN [err |-> "ZeroDivisionError", comps |-> <<>>]
         ELSE LET next(made) ==
                      IF made.err # "" THEN [err |-> made.err, comps |-> <<>>]
                      ELSE DecodeLoop(components, i - 1,
                               combination \div component.combinations,
                               Append(acc, [name |-> components[i].name,
                                            comp |-> made.obj]))
              IN Eval(next, BoundCopy(component,
                                Some(IntArg(combination % component.combinations)),
                                None, None, None, None, None))

RECURSIVE SplitLoopSame(_, _, _, _)
\* mutant: the values a component took are not removed from the list
SplitLoopSame(components, i, values, acc) ==
    IF i > Len(components) THEN [err |-> "", comps |-> acc]
    ELSE LET component == components[i].comp
             next(made) ==
                 IF made.err # "" THEN [err |-> made.err, comps |-> <<>>]
                 ELSE SplitLoopSame(components, i + 1, values,
                          Append(acc, [name |-> components[i].name, comp |-> made.obj]))
         IN Eval(next, BoundCopy(component,
                           Some(ListArg(SliceTo(values, component.count))),
                           None, None, None, None, None))

RECURSIVE SplitLoop(_, _, _, _)
\* for name, component in self._components.items():
\*     components_[name] = component.copy(values=values[: component.count])
\*     values = values[component.count :] if len(values) > component.count else []
SplitLoop(components, i, values, acc) ==
    IF i > Len(components) THEN [err |-> "", comps |-> acc]
    ELSE LET component == components[i].comp
             rest == IF Len(values) > component.count
                     THEN SubSeq(values, Len(SliceTo(values, component.count)) + 1,
                                 Len(values))
                     ELSE <<>>
             next(made) ==
                 IF made.err # "" THEN [err |-> made.err, comps |-> <<>>]
                 ELSE SplitLoop(components, i + 1, rest,
                          Append(acc, [name |-> components[i].name, comp |-> made.obj]))
         IN Eval(next, BoundCopy(component,
                           Some(ListArg(SliceTo(values, component.count))),
                           None, None, None, None, None))

NoCombination == [kind |-> "none", int |-> 0, items |-> <<>>, obj |-> None]
IntCombination(r) == [NoCombination EXCEPT !.kind = "int", !.int = r]
ListCombination(l) == [NoCombination EXCEPT !.kind = "list", !.items = l]
LotteryArg(o) == [NoCombination EXCEPT !.kind = "lottery", !.obj = Some(o)]

\* LotteryCombination.get_combination(combination, **components)
\* (winning_ranks is never passed by the callers modelled here)
get_combination(self, combination, kwargs) ==
    LET reversed(dec) == [err |-> dec.err, comps |-> Reversed(dec.comps)]
        merged(named) ==
            LET create(split) ==
                    IF split.err # "" THEN [err |-> split.err, obj |-> <<>>]
                    ELSE create_combination(self.winning_ranks,
                                            DictMerge(split.comps, named.comps))
            IN
            IF named.err # "" THEN [err |-> named.err, obj |-> <<>>]
            ELSE IF combination.kind = "lottery"
            THEN create_combination(combination.obj[1].winning_ranks,
                     DictMerge(combination.obj[1].components, named.comps))
            ELSE IF combination.kind = "none"
            THEN create_combination(self.winning_ranks, named.comps)
            ELSE IF combination.kind = "int"
            THEN Eval(create,
                      Eval(reversed, DecodeLoop(self.components, Len(self.components),
                                                combination.int, <<>>)))
            ELSE Eval(create, SplitLoop(self.components, 1, combination.items, <<>>))
    IN Eval(merged, get_components(self, kwargs))

\* the truth value of an override: a non-empty list, a non-zero int, a dict,
\* a Combination with at least one value
Truthy(v) ==
    \/ v.dict
    \/ v.kind = "list" /\ v.items # <<>>
    \/ v.kind = "int" /\ v.int # 0
    \/ v.kind = "comb" /\ v.obj[1].values # {}

KwGet(kwargs, name) ==
    IF \E i \in 1..Len(kwargs) : kwargs[i].name = name
    THEN kwargs[CHOOSE i \in 1..Len(kwargs) : kwargs[i].name = name].value
    ELSE NoneArg

\* LotteryCombination.copy(**components)
LotteryCopy(self, kwargs) ==
    LotteryCombination(self.winning_ranks,
        [i \in 1..Len(self.components) |->
            LET name == self.components[i].name
                given == KwGet(kwargs, name)
            IN [name |-> name,
                comp |-> IF Truthy(given) THEN given
                         ELSE CombArg(self.components[i].comp)]])

\* Combination.intersection(combination), combination a Combination:
\* Combination(self._values.intersection(combination), self._start) passes
\* self._start as the rank and leaves start at its default
CombinationIntersection(self, combination) ==
    LET other == Range(get_values(combination, Some(self.start)))
        common == self.values \cap other
    IN [values |-> common,
        rank |-> IF common = {} THEN None ELSE Some(self.start),
        start |-> DEFAULT_START]

\* LotteryCombination.intersection(combination, **components)
LotteryIntersection(self, combination, kwargs) ==
    LET intersect(query) ==
            IF query.err # "" THEN query
            ELSE LET others == query.obj.components IN
                 IF \E i \in 1..Len(others) : ~HasKey(self.components, others[i].name)
                 THEN [err |-> "KeyError", obj |-> <<>>]
                 ELSE get_combination(self, NoCombination,
                          [i \in 1..Len(others) |->
                              [name |-> others[i].name,
                               value |-> CombArg(CombinationIntersection(
                                            Lookup(self.components, others[i].name),
                                            others[i].comp))]])
    IN Eval(intersect, get_combination(self, combination, kwargs))

\* self._winning_ranks.get(pattern)
TableGet(table, pattern) ==
    IF pattern \in DOMAIN table THEN Some(table[pattern]) ELSE None

\* LotteryCombination.get_winning_rank(combination, **components)
get_winning_rank(self, combination, kwargs) ==
    LET lookup(winning) ==
            IF winning.err # "" THEN [err |-> winning.err, rank |-> None]
            ELSE [err |-> "",
                  rank |-> TableGet(self.winning_ranks,
                               [i \in 1..Len(winning.obj.components) |->
                                   Cardinality(winning.obj.components[i].comp.values)])]
    IN Eval(lookup, LotteryIntersection(self, combination, kwargs))

(***************************************************************************)
(* Comparisons.  Combination.equals / intersects / compares take a         *)
(* Combination here (the composite always hands them the components of a   *)
(* resolved query); the composite's methods resolve their arguments with   *)
(* get_combination first and return [err, value].                          *)
(***************************************************************************)
\* Combination.equals(combination): self.values == combination.get_values(self._start)
CombinationEquals(self, combination) ==
    SortedSet(self.values) = get_values(combination, Some(self.start))

\* Combination.intersects(combination): not self._values.isdisjoint(...)
CombinationIntersects(self, combination) ==
    self.values \cap Range(get_values(combination, Some(self.start))) # {}

\* Combination.compares(combination): 0 on equal values, else 1 when
\* self.rank - combination.rank > 0, else -1
CombinationCompares(self, combination) ==
    IF SortedSet(self.values) = get_values(combination, Some(self.start)) THEN 0
    ELSE IF RankValue(self) - RankValue(combination) > 0 THEN 1
    ELSE 0 - 1

RECURSIVE SumLengths(_, _)
SumLengths(components, i) ==
    IF i > Len(components) THEN 0
    ELSE Cardinality(components[i].comp.values) + SumLengths(components, i + 1)

\* LotteryCombination.length
LotteryLength(self) == SumLengths(self.components, 1)

\* all(self_name == other_name and self_comp == other_comp for ... in
\*     zip(self.components.items(), combination.components.items()))
ZipEquals(self, other) ==
    \A i \in 1..Min2(Len(self.components), Len(other.components)) :
        /\ self.components[i].name = other.components[i].name
        /\ CombinationEquals(self.components[i].comp, other.components[i].comp)

\* LotteryCombination.equals(combination, **components)
LotteryEquals(self, combination, kwargs) ==
    LET equals(query) ==
            IF query.err # "" THEN [err |-> query.err, value |-> FALSE]
            ELSE [err |-> "",
                  value |-> IF LotteryLength(query.obj) # LotteryLength(self) THEN FALSE
                            ELSE IF LotteryLength(query.obj) = 0 /\ LotteryLength(self) = 0
                            THEN TRUE
                            ELSE ZipEquals(self, query.obj)]
    IN Eval(equals, get_combination(self, combination, kwargs))

\* mutant: one intersecting component is enough
AnyIntersects(self, other) ==
    \E i \in 1..Len(other.components) :
        /\ Cardinality(other.components[i].comp.values) > 0
        /\ CombinationIntersects(Lookup(self.components, other.components[i].name),
                                 other.components[i].comp)

\* all(self._components[other_name].intersects(other_comp) for ... in
\*     combination.components.items() if other_comp.length > 0)
AllIntersects(self, other) ==
    \A i \in 1..Len(other.components) :
        Cardinality(other.components[i].comp.values) > 0 =>
            CombinationIntersects(Lookup(self.components, other.components[i].name),
                                  other.components[i].comp)

\* LotteryCombination.intersects(combination, **components)
LotteryIntersects(self, combination, kwargs) ==
    LET intersects(query) ==
            IF query.err # "" THEN [err |-> query.err, value |-> FALSE]
            ELSE [err |-> "",
                  value |-> IF LotteryLength(query.obj) = 0 \/ LotteryLength(self) = 0
                            THEN FALSE
                            ELSE AllIntersects(self, query.obj)]
    IN Eval(intersects, get_combination(self, combination, kwargs))

RECURSIVE ComparesLoop(_, _, _)
\* the for loop of compares: the components of the query, in the query's order
ComparesLoop(self, others, i) ==
    IF i > Len(others) THEN 0
    ELSE LET sign == CombinationCompares(Lookup(self.components, others[i].name),
                                         others[i].comp)
         IN IF sign # 0 THEN sign ELSE ComparesLoop(self, others, i + 1)

RECURSIVE ComparesReads(_, _, _)
\* the component of self whose rank the loop reads: the first one whose
\* values differ from the query's (Combination.rank stores _rank)
ComparesReads(self, others, i) ==
    IF i > Len(others) THEN None
    ELSE IF ~CombinationEquals(Lookup(self.components, others[i].name), others[i].comp)
    THEN Some(others[i].name)
    ELSE ComparesReads(self, others, i + 1)

\* self after compares(combination, **components)
ComparesSelf(self, combination, kwargs) ==
    LET after(query) ==
            IF query.err # "" \/ LotteryLength(query.obj) = 0 \/ LotteryLength(self) = 0
            THEN self
            ELSE LET read == ComparesReads(self, query.obj.components, 1) IN
                 [self EXCEPT !.components =
                     [i \in 1..Len(self.components) |->
                         IF read # None /\ self.components[i].name = read[1]
                         THEN [self.components[i] EXCEPT !.comp.rank =
                                  Some(RankValue(self.components[i].comp))]
                         ELSE self.components[i]]]
    IN Eval(after, get_combination(self, combination, kwargs))

\* LotteryCombination.compares(combination, **components)
LotteryCompares(self, combination, kwargs) ==
    LET compares(query) ==
            IF query.err # "" THEN [err |-> query.err, value |-> 0]
            ELSE [err |-> "",
                  value |-> IF LotteryLength(query.obj) = 0 /\ LotteryLength(self) = 0
                            THEN 0
                            ELSE IF LotteryLength(query.obj) = 0 \/ LotteryLength(self) = 0
                            THEN (IF LotteryLength(self) < LotteryLength(query.obj)
                                  THEN 0 - 1 ELSE 1)
                            ELSE ComparesLoop(self, query.obj.components, 1)]
    IN Eval(compares, get_combination(self, combination, kwargs))

\* self.get_combination(**{other_name: self._components[other_name]
\*     .intersection(other_comp) for other_name, other_comp in ...})
IntersectComponents(self, others) ==
    get_combination(self, NoCombination,
        [i \in 1..Len(others) |->
            [name |-> others[i].name,
             value |-> CombArg(CombinationIntersection(
                          Lookup(self.components, others[i].name),
                          others[i].comp))]])

\* a float kept as the quotient num / den
Ratio(num, den) == [num |-> num, den |-> den]

\* LotteryCombination.similarity(combination, **components)
LotterySimilarity(self, combination, kwargs) ==
    LET divide(common) ==
            IF common.err # "" THEN [err |-> common.err, value |-> Ratio(0, 1)]
            ELSE [err |-> "", value |-> Ratio(LotteryLength(common.obj), LotteryLength(self))]
        similarity(query) ==
            IF query.err # "" THEN [err |-> query.err, value |-> Ratio(0, 1)]
            ELSE IF LotteryLength(query.obj) = 0 /\ LotteryLength(self) = 0
            THEN [err |-> "", value |-> Ratio(1, 1)]
            ELSE IF LotteryLength(query.obj) = 0 \/ LotteryLength(self) = 0
            THEN [err |-> "", value |-> Ratio(0, 1)]
            ELSE IF ZipEquals(self, query.obj)
            THEN [err |-> "", value |-> Ratio(1, 1)]
            ELSE Eval(divide, IntersectComponents(self, query.obj.components))
    IN Eval(similarity, get_combination(self, combination, kwargs))

(***************************************************************************)
(* generate(n, partitions): the rank space is cut into blocks of           *)
(* ceil(combinations / partitions) ranks, draw i takes a rank of block     *)
(* i % partitions from random.randint, which raises ValueError on an       *)
(* empty range.                                                            *)
(***************************************************************************)
\* ceil(a / b) for a >= 0, b >= 1
Ceil(a, b) == (a + b - 1) \div b

\* mutant: every draw starts at rank 0
BlockLowFirst(partition, partitions, i) == 0

\* partition * (i % partitions)
BlockLow(partition, partitions, i) == partition * (i % partitions)

\* min(partition * (i % partitions + 1) - 1, combinations - 1)
BlockHigh(partition, partitions, combinations, i) ==
    Min2(partition * ((i % partitions) + 1) - 1, combinations - 1)

\* some random.randint(a, b) of the comprehension is called with a > b
GenerateRaises(combinations, n, partitions) ==
    LET partition == Ceil(combinations, partitions) IN
    \E i \in 0..(n - 1) :
        BlockLow(partition, partitions, i)
            > BlockHigh(partition, partitions, combinations, i)

RECURSIVE Draws(_, _, _)
\* the sequences of n ranks random.randint can return, draw i at index i + 1
Draws(combinations, n, partitions) ==
    IF n = 0 THEN {<<>>}
    ELSE LET partition == Ceil(combinations, partitions)
             block == BlockLow(partition, partitions, n - 1)
                          ..BlockHigh(partition, partitions, combinations, n - 1)
         IN {Append(d, r) : d \in Draws(combinations, n - 1, partitions), r \in block}

\* BoundCombination.generate: [self.copy(values=rank) for each drawn rank]
BoundGenerate(self, draws) ==
    [i \in 1..Len(draws) |->
        BoundCopy(self, Some(IntArg(draws[i])), None, None, None, None, None)]

\* LotteryCombination.generate: [self.get_combination(rank) for each drawn rank]
LotteryGenerate(self, draws) ==
    [i \in 1..Len(draws) |-> get_combination(self, IntCombination(draws[i]), <<>>)]

(***************************************************************************)
(* Scenario "index": rank and unrank applied to bounded inputs, and to the *)
(* known values of tests/combinations/test_combination.py.                 *)
(***************************************************************************)
Idle == <<>>

Offsets == (0 - 1)..MaxOffset

KSubsets(S, k) == {T \in SUBSET S : Cardinality(T) = k}

InitIndex ==
    /\ pc = "init"
    /\ \/ \E n \in 0..MaxN, o \in Offsets :
            \E k \in 0..n :
                \E r \in (0 - 1)..MaxRank, S \in KSubsets(o..(o + n - 1), k) :
                    ix = [n |-> n, length |-> k, offset |-> o, rank |-> r, S |-> S,
                          combination |-> None, rerank |-> None,
                          srank |-> None, sback |-> None]
       \/ \E o \in Offsets, r \in (0 - 1)..MaxRank :
            ix = [n |-> 0, length |-> 0 - 1, offset |-> o, rank |-> r, S |-> {},
                  combination |-> None, rerank |-> None,
                  srank |-> None, sback |-> None]
       \/ \E o \in {0, 1} :
            ix = [n |-> 50, length |-> 3, offset |-> o, rank |-> 14741,
                  S |-> {23 + o, 33 + o, 45 + o},
                  combination |-> None, rerank |-> None,
                  srank |-> None, sback |-> None]
    /\ bc = Idle /\ lc = Idle /\ arg = Idle /\ out = Idle /\ gen = Idle

\* combination = get_combination_from_rank(rank, length, offset)
Unrank ==
    /\ pc = "init"
    /\ IF UnrankRaises(ix.rank, ix.length)
       THEN pc' = "ValueError" /\ ix' = ix
       ELSE /\ pc' = "unranked"
            /\ ix' = [ix EXCEPT !.combination =
                        Some(get_combination_from_rank(ix.rank, ix.length, ix.offset))]
    /\ UNCHANGED <<bc, lc, arg, out, gen>>

\* rerank = get_combination_rank(combination, offset)
Rerank ==
    /\ pc = "unranked"
    /\ IF RankRaises(ix.combination[1], ix.offset)
       THEN pc' = "ValueError" /\ ix' = ix
       ELSE /\ pc' = "reranked"
            /\ ix' = [ix EXCEPT !.rerank =
                        Some(get_combination_rank(ix.combination[1], ix.offset))]
    /\ UNCHANGED <<bc, lc, arg, out, gen>>

\* srank = get_combination_rank(S, offset)
RankSet ==
    /\ pc = "init"
    /\ pc' = "ranked"
    /\ ix' = [ix EXCEPT !.srank = Some(get_combination_rank(SortedSet(ix.S), ix.offset))]
    /\ UNCHANGED <<bc, lc, arg, out, gen>>

\* sback = get_combination_from_rank(srank, len(S), offset)
UnrankBack ==
    /\ pc = "ranked"
    /\ pc' = "back"
    /\ ix' = [ix EXCEPT !.sback =
                Some(get_combination_from_rank(ix.srank[1], Cardinality(ix.S), ix.offset))]
    /\ UNCHANGED <<bc, lc, arg, out, gen>>

\* bc = BoundCombination(rank, start=offset, end=offset + n - 1, count=length)
ConstructRank ==
    /\ pc = "init"
    /\ ix.n >= 1 /\ ix.n <= MaxN
    /\ LET res == BoundCombination(IntArg(ix.rank), None, Some(ix.offset),
                                   Some(ix.offset + ix.n - 1), Some(ix.length), None)
       IN /\ pc' = IF res.err # "" THEN "rejected" ELSE "constructed"
          /\ bc' = res.obj
    /\ UNCHANGED <<ix, lc, arg, out, gen>>

NextIndex == Unrank \/ Rerank \/ RankSet \/ UnrankBack \/ ConstructRank

SpecIndex == InitIndex /\ [][NextIndex]_vars

(***************************************************************************)
(* Scenario "lottery": a composite of "numbers" (start 0 .. MaxStart) and  *)
(* "stars" (start DEFAULT_START), declared in either order, or of          *)
(* "numbers" alone, or of nothing; its rank is read, an integer is decoded,*)
(* it is copied with overrides and matched against a query.                *)
(***************************************************************************)
SubsetsUpTo(S, k) == {T \in SUBSET S : Cardinality(T) <= k}

NumbersShapes ==
    {[start |-> s, end |-> s + NumbersSize - 1, count |-> NumbersCount] :
        s \in 0..MaxStart}

StarsShape ==
    [start |-> DEFAULT_START, end |-> DEFAULT_START + StarsSize - 1,
     count |-> StarsCount]

\* BoundCombination(values, start=, end=, count=) for a list of values
Component(sh, values) ==
    BoundCombination(values, None, Some(sh.start), Some(sh.end), Some(sh.count),
                     None).obj

ComponentsOf(sh) ==
    {Component(sh, ListArg(SortedSet(T))) :
        T \in SubsetsUpTo(sh.start..sh.end, sh.count)}

\* components built from a {values, rank} pair: the rank is taken as given
RankedComponentsOf(sh) ==
    {Component(sh, DictArg(ListArg(SortedSet(T)), Some(MaxIntRank))) :
        T \in {U \in SUBSET (sh.start..sh.end) : Cardinality(U) = sh.count}}

RECURSIVE PatternCode(_)
PatternCode(p) ==
    IF p = <<>> THEN 0
    ELSE PatternCode(SubSeq(p, 1, Len(p) - 1)) * (NumbersCount + StarsCount + 1)
             + p[Len(p)]

\* a winning-rank table: every pattern of m lengths but the all-zero one
WinningTable(m) ==
    LET lengths == 0..(NumbersCount + StarsCount)
        patterns == IF m = 1 THEN {<<a>> : a \in lengths \ {0}}
                    ELSE IF m = 2
                    THEN {<<a, b>> : a \in lengths, b \in lengths} \ {<<0, 0>>}
                    ELSE {}
    IN [p \in patterns |-> PatternCode(p)]

Entry(name, comp) == [name |-> name, comp |-> comp]

Lottery(components) ==
    create_combination(WinningTable(Len(components)), components).obj

InitLottery ==
    /\ pc = "ready"
    /\ \E ns \in NumbersShapes :
       \E n \in ComponentsOf(ns) \cup RankedComponentsOf(ns),
          st \in ComponentsOf(StarsShape) :
          lc \in {Lottery(<<>>),
                  Lottery(<<Entry("numbers", n)>>),
                  Lottery(<<Entry("numbers", n), Entry("stars", st)>>),
                  Lottery(<<Entry("stars", st), Entry("numbers", n)>>)}
    /\ arg = Idle /\ out = Idle
    /\ ix = Idle /\ bc = Idle /\ gen = Idle

Ready == pc \in {"ready", "rank"}

\* lc.rank, lc.combinations: reading the rank stores every component's _rank
LotteryReadRank ==
    /\ pc = "ready"
    /\ pc' = "rank"
    /\ out' = [rank |-> LotteryRank(lc), combinations |-> LotteryCombinations(lc)]
    /\ lc' = [lc EXCEPT !.components =
                [i \in 1..Len(lc.components) |->
                    [lc.components[i] EXCEPT !.comp.rank =
                        Some(RankValue(lc.components[i].comp))]]]
    /\ arg' = Idle
    /\ UNCHANGED <<ix, bc, gen>>

\* out = lc.get_combination(r), r the rank of lc or any integer around the space
LotteryDecode ==
    /\ Ready
    /\ \E r \in {LotteryRank(lc)} \cup ((0 - 1)..LotteryCombinations(lc)) :
          /\ arg' = IntCombination(r)
          /\ out' = get_combination(lc, IntCombination(r), <<>>)
    /\ pc' = "decoded"
    /\ UNCHANGED <<ix, bc, lc, gen>>

\* the keyword arguments naming distinct components of self, in any order,
\* each with one of the values Choices(comp)
Kwargs(self, Choices(_)) ==
    LET d == self.components
        one(i) == {<<[name |-> d[i].name, value |-> v]>> : v \in Choices(d[i].comp)}
    IN {<<>>}
       \cup UNION {one(i) : i \in 1..Len(d)}
       \cup UNION {IF i = j THEN {} ELSE {a \o b : a \in one(i), b \in one(j)} :
                     i \in 1..Len(d), j \in 1..Len(d)}

\* query values: the sorted subsets of the component's universe, at most count
QueryChoices(comp) ==
    {ListArg(SortedSet(T)) : T \in SubsetsUpTo(comp.start..comp.end, comp.count)}

\* out = lc.get_winning_rank(**kwargs)
LotteryWinningRank ==
    /\ Ready
    /\ \E kwargs \in Kwargs(lc, QueryChoices) :
          /\ arg' = kwargs
          /\ out' = get_winning_rank(lc, NoCombination, kwargs)
    /\ pc' = "winning_rank"
    /\ UNCHANGED <<ix, bc, lc, gen>>

\* overrides: a full list of values, a rank, a {values, rank} pair, a BoundCombination
OverrideChoices(comp) ==
    LET sh == [start |-> comp.start, end |-> comp.end, count |-> comp.count]
        full == {T \in SUBSET (comp.start..comp.end) : Cardinality(T) = comp.count}
    IN {ListArg(SortedSet(T)) : T \in full}
       \cup {IntArg(r) : r \in 0..(comp.combinations - 1)}
       \cup {DictArg(ListArg(SortedSet(comp.values)), Some(MaxIntRank))}
       \cup {CombArg(Component(sh, ListArg(SortedSet(T)))) : T \in full \cup {{}}}

\* out = lc.copy(**kwargs)
LotteryCopyStep ==
    /\ Ready
    /\ \E kwargs \in Kwargs(lc, OverrideChoices) :
          /\ arg' = kwargs
          /\ out' = LotteryCopy(lc, kwargs)
    /\ pc' = "copy"
    /\ UNCHANGED <<ix, bc, lc, gen>>

\* the rank is read and integers are decoded
NextLottery == LotteryReadRank \/ LotteryDecode

SpecLottery == InitLottery /\ [][NextLottery]_vars

\* the composite is matched against queries and copied with overrides
NextLotteryCalls == LotteryReadRank \/ LotteryWinningRank \/ LotteryCopyStep

SpecLotteryCalls == InitLottery /\ [][NextLotteryCalls]_vars

(***************************************************************************)
(* Scenario "generate": generate(n, partitions) is called on a             *)
(* BoundCombination or on a composite; every outcome of the random source  *)
(* is a behaviour.  gen keeps the arguments and the returned list.         *)
(***************************************************************************)
GenShapes ==
    {[start |-> s, end |-> s + size - 1, count |-> c] :
        s \in 0..MaxStart, size \in 1..GenSize, c \in 0..GenSize}

\* the second component of the generating composite: one value of two
GenStars == [start |-> DEFAULT_START, end |-> DEFAULT_START + 1, count |-> 1]

NoList(kind) == [kind |-> kind, n |-> 0, partitions |-> 0, list |-> <<>>]

InitGen ==
    /\ pc = "ready"
    /\ \/ /\ gen = NoList("bound")
          /\ \E sh \in GenShapes :
                /\ sh.count <= sh.end - sh.start + 1
                /\ bc = Component(sh, NoneArg)
          /\ lc = Idle
       \/ /\ gen = NoList("lottery")
          /\ bc = Idle
          /\ \/ lc = Lottery(<<>>)
             \/ \E sh \in GenShapes :
                   /\ sh.count <= sh.end - sh.start + 1
                   /\ lc \in {Lottery(<<Entry("numbers", Component(sh, NoneArg)),
                                         Entry("stars", Component(GenStars, NoneArg))>>),
                               Lottery(<<Entry("stars", Component(GenStars, NoneArg)),
                                         Entry("numbers", Component(sh, NoneArg))>>)}
    /\ ix = Idle /\ arg = Idle /\ out = Idle

\* gen.list = bc.generate(n, partitions)
BoundGenerateStep ==
    /\ pc = "ready" /\ gen.kind = "bound"
    /\ \E n \in 0..MaxDraws, partitions \in 0..MaxPartitions :
          LET n1 == Max2(1, n)
              partitions1 == Max2(1, partitions)
          IN IF GenerateRaises(bc.combinations, n1, partitions1)
             THEN /\ pc' = "ValueError"
                  /\ gen' = [gen EXCEPT !.n = n, !.partitions = partitions]
             ELSE \E draws \in Draws(bc.combinations, n1, partitions1) :
                     LET made == BoundGenerate(bc, draws) IN
                     IF \E i \in 1..n1 : made[i].err # ""
                     THEN /\ pc' = made[CHOOSE i \in 1..n1 : made[i].err # ""].err
                          /\ gen' = [gen EXCEPT !.n = n, !.partitions = partitions]
                     ELSE /\ pc' = "generated"
                          /\ gen' = [gen EXCEPT !.n = n, !.partitions = partitions,
                                                !.list = [i \in 1..n1 |-> made[i].obj]]
    /\ UNCHANGED <<ix, bc, lc, arg, out>>

\* gen.list = lc.generate(n, partitions)
LotteryGenerateStep ==
    /\ pc = "ready" /\ gen.kind = "lottery"
    /\ \E n \in 0..MaxDraws, partitions \in 0..MaxPartitions :
          LET n1 == Max2(1, n)
              partitions1 == Max2(1, partitions)
              combinations == LotteryCombinations(lc)
          IN IF GenerateRaises(combinations, n1, partitions1)
             THEN /\ pc' = "ValueError"
                  /\ gen' = [gen EXCEPT !.n = n, !.partitions = partitions]
             ELSE \E draws \in Draws(combinations, n1, partitions1) :
                     LET made == LotteryGenerate(lc, draws) IN
                     IF \E i \in 1..n1 : made[i].err # ""
                     THEN /\ pc' = made[CHOOSE i \in 1..n1 : made[i].err # ""].err
                          /\ gen' = [gen EXCEPT !.n = n, !.partitions = partitions]
                     ELSE /\ pc' = "generated"
                          /\ gen' = [gen EXCEPT !.n = n, !.partitions = partitions,
                                                !.list = [i \in 1..n1 |-> made[i].obj]]
    /\ UNCHANGED <<ix, bc, lc, arg, out>>

NextGen == BoundGenerateStep \/ LotteryGenerateStep

SpecGen == InitGen /\ [][NextGen]_vars

(***************************************************************************)
(* Claims about the combinatorial index.                                   *)
(***************************************************************************)
RECURSIVE Binomial(_, _)
\* the binomial coefficient C(n, k) by Pascal's rule, for n, k >= 0
Binomial(n, k) ==
    IF k = 0 THEN 1
    ELSE IF n = 0 THEN 0
    ELSE Binomial(n - 1, k - 1) + Binomial(n - 1, k)

RECURSIVE CnsSum(_, _, _)
\* sum over i of C(c_i - offset, i), c the ascending sequence s (1-based i)
CnsSum(s, offset, i) ==
    IF i > Len(s) THEN 0
    ELSE Binomial(s[i] - offset, i) + CnsSum(s, offset, i + 1)

StrictlyIncreasing(s) == \A i \in 1..(Len(s) - 1) : s[i] < s[i + 1]

InRankRange == 0 <= ix.rank /\ ix.rank < Binomial(ix.n, ix.length)

\* C1: for 0 <= k <= n, every offset and every rank r with 0 <= r < C(n,k),
\* unranking r never fails and ranking the unranked combination gives r back.
C1_RoundTrip ==
    /\ (pc = "reranked" /\ InRankRange) => ix.rerank = Some(ix.rank)
    /\ (pc = "ValueError") => ~InRankRange

C1_Witness ==
    /\ pc = "reranked"
    /\ ix.length >= 2
    /\ ix.offset # 0
    /\ ix.rank > 0
    /\ ix.rank = Binomial(ix.n, ix.length) - 1

\* C2: for r >= 0 and k >= 2 unrank returns exactly k strictly increasing
\* integers >= offset, the unique ascending sequence whose binomial sum
\* sum_i C(c_i, i+1) is r (shifted by offset); for r < C(n,k) no element
\* exceeds offset + n - 1; unrank(0,3) = [0,1,2], unrank(14741,3) = [23,33,45];
\* and unranking the rank of a set S of k distinct integers >= offset gives
\* sorted(S).
C2_Unrank ==
    /\ (pc = "unranked" /\ ix.length >= 2) =>
         LET c == ix.combination[1]
             top == Max2(c[Len(c)], ix.offset + ix.n - 1)
         IN /\ Len(c) = ix.length
            /\ StrictlyIncreasing(c)
            /\ \A i \in 1..Len(c) : c[i] >= ix.offset
            /\ CnsSum(c, ix.offset, 1) = ix.rank
            /\ ix.n <= MaxN =>
                 \A T \in KSubsets(ix.offset..(top + 1), ix.length) :
                     CnsSum(SortedSet(T), ix.offset, 1) = ix.rank => T = Range(c)
            /\ InRankRange => \A i \in 1..Len(c) : c[i] <= ix.offset + ix.n - 1
            /\ (ix.rank = 0 /\ ix.length = 3 /\ ix.offset = 0) => c = <<0, 1, 2>>
            /\ (ix.rank = 14741 /\ ix.length = 3) =>
                 c = <<23 + ix.offset, 33 + ix.offset, 45 + ix.offset>>
    /\ (pc = "back") => ix.sback = Some(SortedSet(ix.S))

C2_Witness ==
    /\ pc = "unranked"
    /\ ix.rank = 14741
    /\ ix.offset = 0
    /\ ix.combination = Some(<<23, 33, 45>>)

(***************************************************************************)
(* Scenario "bound": a BoundCombination is constructed from any kind of    *)
(* input, then copied (with new values or new bounds), rebuilt from itself *)
(* and read, in any order.  arg keeps what kind of values argument the     *)
(* last call was given and whether it was longer than count or had values  *)
(* outside [start, end].                                                   *)
(***************************************************************************)
Shapes ==
    {[start |-> s, end |-> e, count |-> c] :
        s \in 0..MaxStart, e \in 0..MaxEnd, c \in 0..MaxCount}

RECURSIVE ListsUpTo(_, _)
\* the lists of at most n values of S
ListsUpTo(n, S) ==
    IF n = 0 THEN {<<>>}
    ELSE LET shorter == ListsUpTo(n - 1, S) IN
         shorter \cup {Append(l, v) : l \in {x \in shorter : Len(x) = n - 1},
                                      v \in S}

\* input values around a universe: below it, inside it and above it
InputValues(start, end) == (start - 1)..(end + 1)

InputRanks == (0 - 1)..MaxIntRank

PlainArgs(start, end) ==
    {NoneArg} \cup {ListArg(l) : l \in ListsUpTo(MaxLen, InputValues(start, end))}
              \cup {IntArg(r) : r \in InputRanks}

PairArgs(start, end) ==
    {DictArg(v, Some(r)) :
        v \in {NoneArg} \cup {ListArg(l) : l \in ListsUpTo(MaxLen - 1, start..end)},
        r \in {0 - 1, MaxIntRank}}

ArgKind(v, start, end, count) ==
    [kind |-> IF v.dict THEN "pair" ELSE v.kind,
     overlong |-> Len(v.items) > count,
     outside |-> \E i \in 1..Len(v.items) : v.items[i] < start \/ v.items[i] > end]

NoArg == [kind |-> "absent", overlong |-> FALSE, outside |-> FALSE]

InitBound ==
    /\ pc = "init"
    /\ bc = Idle /\ arg = NoArg
    /\ ix = Idle /\ lc = Idle /\ out = Idle /\ gen = Idle

\* bc = BoundCombination(values, rank=rank, start=, end=, count=, combinations=)
Construct ==
    /\ pc = "init"
    /\ \E sh \in Shapes :
       \E v \in PlainArgs(sh.start, sh.end) \cup PairArgs(sh.start, sh.end),
          r \in {None, Some(MaxIntRank)}, cb \in {None, Some(1)} :
          LET res == BoundCombination(v, r, Some(sh.start), Some(sh.end),
                                      Some(sh.count), cb)
          IN /\ sh.start <= sh.end
             /\ r # None => (v.kind = "list" /\ ~v.dict)
             /\ cb # None => (v.kind = "list" /\ ~v.dict /\ r = None)
             /\ arg' = ArgKind(IF r = None THEN v ELSE DictArg(v, r),
                               sh.start, sh.end, sh.count)
             /\ IF res.err # ""
                THEN pc' = res.err /\ bc' = bc
                ELSE pc' = "constructed" /\ bc' = res.obj
    /\ UNCHANGED <<ix, lc, out, gen>>

HasObject == pc \in {"constructed", "copy", "rebuilt", "rank_computed", "rank_cached"}

\* bc = bc.copy(values=v)
CopyValues ==
    /\ HasObject
    /\ \E v \in PlainArgs(bc.start, bc.end) \cup PairArgs(bc.start, bc.end) :
          LET res == BoundCopy(bc, Some(v), None, None, None, None, None)
          IN /\ arg' = ArgKind(v, bc.start, bc.end, bc.count)
             /\ IF res.err # ""
                THEN pc' = res.err /\ bc' = bc
                ELSE pc' = "copy" /\ bc' = res.obj
    /\ UNCHANGED <<ix, lc, out, gen>>

OptionOf(S) == {None} \cup {Some(x) : x \in S}

\* bc = bc.copy(start=, end=, count=), each given or not
CopyBounds ==
    /\ HasObject
    /\ \E s \in OptionOf(0..MaxStart), e \in OptionOf(0..MaxEnd),
          c \in OptionOf(0..MaxCount) :
          LET res == BoundCopy(bc, None, None, s, e, c, None)
          IN /\ OrElse(s, bc.start) <= OrElse(e, bc.end)
             /\ arg' = NoArg
             /\ IF res.err # ""
                THEN pc' = res.err /\ bc' = bc
                ELSE pc' = "copy" /\ bc' = res.obj
    /\ UNCHANGED <<ix, lc, out, gen>>

\* bc = BoundCombination(bc, start=, end=, count=): built from another Combination
Rebuild ==
    /\ HasObject
    /\ \E sh \in Shapes :
          LET res == BoundCombination(CombArg(bc), None, Some(sh.start),
                                      Some(sh.end), Some(sh.count), None)
          IN /\ sh.start <= sh.end
             /\ arg' = ArgKind(CombArg(bc), sh.start, sh.end, sh.count)
             /\ IF res.err # ""
                THEN pc' = res.err /\ bc' = bc
                ELSE pc' = "rebuilt" /\ bc' = res.obj
    /\ UNCHANGED <<ix, lc, out, gen>>

\* bc.rank (also hash(bc)): computed and stored in _rank on the first read
ReadRank ==
    /\ HasObject
    /\ IF RankReadRaises(bc)
       THEN pc' = "ValueError" /\ bc' = bc
       ELSE /\ pc' = IF bc.rank = None THEN "rank_computed" ELSE "rank_cached"
            /\ bc' = [bc EXCEPT !.rank = Some(RankValue(bc))]
    /\ UNCHANGED <<ix, lc, arg, out, gen>>

NextBound == Construct \/ CopyValues \/ CopyBounds \/ Rebuild \/ ReadRank

SpecBound == InitBound /\ [][NextBound]_vars

(***************************************************************************)
(* Claims about BoundCombination.                                          *)
(***************************************************************************)
Full(self) == Cardinality(self.values) = self.count

\* C5: every BoundCombination constructed from any input and reached by any
\* sequence of copies has len(values) <= count and every value in
\* [start, end] (count >= 0, start <= end); over-long and out-of-range value
\* lists are truncated and clamped, never rejected.
C5_Bounded ==
    /\ HasObject =>
         /\ Cardinality(bc.values) <= bc.count
         /\ \A v \in bc.values : bc.start <= v /\ v <= bc.end
    /\ pc = "ValueError" => arg.kind \in {"int", "pair"}

C5_Witness ==
    /\ pc = "copy"
    /\ arg.kind = "list"
    /\ arg.overlong
    /\ arg.outside
    /\ bc.count > 0
    /\ Full(bc)

DefaultCombinations(self) ==
    self.combinations = Binomial(self.end - self.start + 1, self.count)

RECURSIVE WeightAfter(_, _)
\* the product of c_j.combinations over the components declared after c_i
WeightAfter(components, i) ==
    IF i >= Len(components) THEN 1
    ELSE components[i + 1].comp.combinations * WeightAfter(components, i + 1)

RECURSIVE MixedRadix(_, _)
\* the sum over i <= k of c_i.rank times the weight of c_i
MixedRadix(components, k) ==
    IF k = 0 THEN 0
    ELSE MixedRadix(components, k - 1)
             + RankValue(components[k].comp) * WeightAfter(components, k)

Swapped(self) ==
    [self EXCEPT !.components = <<self.components[2], self.components[1]>>]

AllFull(self) ==
    \A i \in 1..Len(self.components) :
        LET c == self.components[i].comp IN
        /\ Full(c)
        /\ RankValue(c) = get_combination_rank(SortedSet(c.values), c.start)

\* C4: for a composite whose components are all full, with ranks computed
\* from the values, get_combination(rank) returns the same component names in
\* the same order with the same values, and 0 <= rank < combinations; every
\* integer of [0, combinations) decodes to a full composite of that rank, so
\* distinct full composites have distinct ranks.
C4_DecodeRank ==
    /\ (pc = "decoded" /\ arg = IntCombination(LotteryRank(lc)) /\ AllFull(lc)) =>
          /\ out.err = ""
          /\ Names(out.obj.components) = Names(lc.components)
          /\ \A i \in 1..Len(lc.components) :
                out.obj.components[i].comp.values = lc.components[i].comp.values
          /\ Len(lc.components) >= 1 =>
                (0 <= LotteryRank(lc) /\ LotteryRank(lc) < LotteryCombinations(lc))
    /\ (pc = "decoded" /\ 0 <= arg.int /\ arg.int < LotteryCombinations(lc)) =>
          /\ out.err = ""
          /\ AllFull(out.obj)
          /\ LotteryRank(out.obj) = arg.int

C4_Witness ==
    /\ pc = "decoded"
    /\ Len(lc.components) = 2
    /\ lc.components[1].name = "numbers"
    /\ AllFull(lc)
    /\ arg = IntCombination(LotteryRank(lc))
    /\ arg.int = LotteryCombinations(lc) - 1
    /\ out.err = ""
    /\ out.obj.components[2].comp.values = lc.components[2].comp.values

HasKwarg(kwargs, name) == \E i \in 1..Len(kwargs) : kwargs[i].name = name

\* the query's value set for a component
QueryValues(kwargs, name) ==
    IF HasKwarg(kwargs, name) THEN Range(KwGet(kwargs, name).items) ELSE {}

\* C7 as stated: get_winning_rank(query) is the table's entry for the tuple of
\* overlap counts |c_i & q_i|, one per component of self in self's
\* declaration order, and None when the tuple is not a key of the table,
\* whatever the components' start and the order of the keyword arguments
\* (checked for the queries that name every component of self).
C7_OverlapPattern ==
    (pc = "winning_rank" /\ Len(arg) = Len(lc.components)) =>
        /\ out.err = ""
        /\ out.rank =
              TableGet(lc.winning_ranks,
                  [i \in 1..Len(lc.components) |->
                      Cardinality(lc.components[i].comp.values
                                  \cap QueryValues(arg, lc.components[i].name))])

\* the values an override stands for at the boundary of the component
OverrideValues(component, given) ==
    IF IsBoundCombination(given) THEN given.obj[1].values
    ELSE BoundCopy(component, Some(given), None, None, None, None, None).obj.values

\* C10 as stated: copy(**overrides) returns a composite with self's component
\* names in self's order, where every component named in overrides holds the
\* value given by the override and every other component is self's.
C10_CopyOverrides ==
    pc = "copy" =>
        /\ out.err = ""
        /\ Names(out.obj.components) = Names(lc.components)
        /\ \A i \in 1..Len(lc.components) :
              LET name == lc.components[i].name IN
              IF HasKwarg(arg, name)
              THEN out.obj.components[i].comp.values
                       = OverrideValues(lc.components[i].comp, KwGet(arg, name))
              ELSE out.obj.components[i].comp = lc.components[i].comp

(***************************************************************************)
(* Claims about generate.                                                  *)
(***************************************************************************)
GenCombinations ==
    IF gen.kind = "bound" THEN bc.combinations ELSE LotteryCombinations(lc)

GenRank(i) ==
    IF gen.kind = "bound" THEN RankValue(gen.list[i]) ELSE LotteryRank(gen.list[i])

GenValues(i) ==
    IF gen.kind = "bound" THEN gen.list[i].values
    ELSE [j \in 1..Len(gen.list[i].components) |->
             gen.list[i].components[j].comp.values]

\* C8 as stated: for n >= 1, partitions >= 1 and combinations >= 1,
\* generate(n, partitions) returns n combinations without failing, the i-th
\* (from 0) of rank r_i with B * (i mod partitions) <= r_i <=
\* min(B * (i mod partitions + 1), combinations) - 1, B = ceil(combinations /
\* partitions).
C8_GenerateInBlocks ==
    (pc # "ready" /\ gen.n >= 1 /\ gen.partitions >= 1 /\ GenCombinations >= 1) =>
        /\ pc = "generated"
        /\ Len(gen.list) = gen.n
        /\ \A i \in 0..(gen.n - 1) :
              LET B == Ceil(GenCombinations, gen.partitions)
                  block == i % gen.partitions
              IN /\ B * block <= GenRank(i + 1)
                 /\ GenRank(i + 1) <= Min2(B * (block + 1), GenCombinations) - 1

\* C9: when generate(n, partitions) returns and 1 <= n <= partitions, the
\* ranks of the n combinations are pairwise distinct, and so are their
\* values, whatever ranks the random source returned.
C9_DistinctDraws ==
    (pc = "generated" /\ 1 <= gen.n /\ gen.n <= gen.partitions) =>
        \A i \in 1..gen.n, j \in 1..gen.n :
            i # j => (GenRank(i) # GenRank(j) /\ GenValues(i) # GenValues(j))

C9_Witness ==
    /\ pc = "generated"
    /\ gen.n = MaxDraws
    /\ gen.n < gen.partitions
    /\ gen.kind = "lottery"
    /\ Len(gen.list) = gen.n
    /\ GenRank(1) + 1 = GenRank(2)

(***************************************************************************)
(* Scenario "resolve": get_combination is called on a composite with       *)
(* nothing, an integer or a flat list of values, and with keyword          *)
(* arguments that may name components the composite does not have; copy    *)
(* is called with the same keyword arguments.  arg keeps the call.         *)
(***************************************************************************)
\* the first count values of a shape
FirstValues(sh) == [i \in 1..sh.count |-> sh.start + i - 1]

\* a component of a shape: empty, or holding its first values
SelfComponents(sh) == {Component(sh, NoneArg), Component(sh, ListArg(FirstValues(sh)))}

InitResolve ==
    /\ pc = "ready"
    /\ \E ns \in NumbersShapes :
       \E n \in SelfComponents(ns), st \in SelfComponents(StarsShape) :
          lc \in {Lottery(<<>>),
                  Lottery(<<Entry("numbers", n)>>),
                  Lottery(<<Entry("numbers", n), Entry("stars", st)>>),
                  Lottery(<<Entry("stars", st), Entry("numbers", n)>>)}
    /\ arg = Idle /\ out = Idle
    /\ ix = Idle /\ bc = Idle /\ gen = Idle

\* the names keyword arguments are written with: "bonus" is never a component
KeywordNames == {"numbers", "stars", "bonus"}

\* the values keyword arguments are written with: lists, ranks, a negative rank
KeywordValues == {ListArg(<<2>>), ListArg(<<3, 1>>), IntArg(1), IntArg(0 - 1)}

\* keyword arguments: at most n of them (n <= 2), of distinct names, in any order
ResolveKwargs(n) ==
    LET one == {<<[name |-> k, value |-> v]>> : k \in KeywordNames, v \in KeywordValues}
    IN {<<>>}
       \cup (IF n >= 1 THEN one ELSE {})
       \cup (IF n >= 2
             THEN {p \in {a \o b : a \in one, b \in one} : p[1].name # p[2].name}
             ELSE {})

RECURSIVE InjectiveLists(_, _)
\* the lists of at most n distinct values of S, in any order
InjectiveLists(n, S) ==
    IF n = 0 THEN {<<>>}
    ELSE LET shorter == InjectiveLists(n - 1, S) IN
         shorter \cup UNION {{Append(l, v) : v \in S \ Range(l)} :
                                 l \in {x \in shorter : Len(x) = n - 1}}

\* flat lists of values: one value more than the components can take
FlatLists ==
    InjectiveLists(NumbersCount + StarsCount + 1, 0..Max2(NumbersSize, StarsSize))

Call(op, combination, kwargs) ==
    [op |-> op, combination |-> combination, kwargs |-> kwargs]

\* out = lc.get_combination(**kwargs)
ResolveNone ==
    /\ pc = "ready"
    /\ \E kwargs \in ResolveKwargs(2) :
          /\ arg' = Call("get_combination", NoCombination, kwargs)
          /\ out' = get_combination(lc, NoCombination, kwargs)
    /\ pc' = "resolved"
    /\ UNCHANGED <<ix, bc, lc, gen>>

\* out = lc.get_combination(r, **kwargs)
ResolveInt ==
    /\ pc = "ready"
    /\ \E r \in (0 - 1)..LotteryCombinations(lc), kwargs \in ResolveKwargs(1) :
          /\ arg' = Call("get_combination", IntCombination(r), kwargs)
          /\ out' = get_combination(lc, IntCombination(r), kwargs)
    /\ pc' = "resolved"
    /\ UNCHANGED <<ix, bc, lc, gen>>

\* out = lc.get_combination(values, **kwargs)
ResolveList ==
    /\ pc = "ready"
    /\ \E l \in FlatLists, kwargs \in ResolveKwargs(1) :
          /\ arg' = Call("get_combination", ListCombination(l), kwargs)
          /\ out' = get_combination(lc, ListCombination(l), kwargs)
    /\ pc' = "resolved"
    /\ UNCHANGED <<ix, bc, lc, gen>>

\* out = lc.copy(**kwargs)
ResolveCopy ==
    /\ pc = "ready"
    /\ \E kwargs \in ResolveKwargs(2) :
          /\ arg' = Call("copy", NoCombination, kwargs)
          /\ out' = LotteryCopy(lc, kwargs)
    /\ pc' = "copied"
    /\ UNCHANGED <<ix, bc, lc, gen>>

NextResolve == ResolveNone \/ ResolveInt \/ ResolveList \/ ResolveCopy

SpecResolve == InitResolve /\ [][NextResolve]_vars

(***************************************************************************)
(* Claims about get_combination and keyword arguments.                     *)
(***************************************************************************)
KeywordNamesOf(kwargs) == [i \in 1..Len(kwargs) |-> kwargs[i].name]

RECURSIVE CountBefore(_, _)
\* s_j: the sum of the counts of the components declared before the j-th
CountBefore(components, j) ==
    IF j <= 1 THEN 0
    ELSE CountBefore(components, j - 1) + components[j - 1].comp.count

\* the values of v at the 0-based positions s .. s + c - 1, as far as v goes
Slice(v, s, c) == {v[i] : i \in (s + 1)..Min2(s + c, Len(v))}

\* C12: for a flat list v, get_combination(v) gives the j-th declared
\* component the values v[s_j : s_j + count_j] (positions of the input, not of
\* the sorted input; nothing past the end of v), clamped into the component's
\* range, and then replaces every component named in the overrides by the
\* override; the call fails only on a keyword argument.
C12_PositionalSplit ==
    (pc = "resolved" /\ arg.combination.kind = "list") =>
        IF out.err # "" THEN arg.kwargs # <<>>
        ELSE \A j \in 1..Len(lc.components) :
                LET c == lc.components[j].comp
                    given == out.obj.components[j].comp
                IN IF HasKwarg(arg.kwargs, lc.components[j].name)
                   THEN given = BoundCopy(c, Some(KwGet(arg.kwargs, lc.components[j].name)),
                                          None, None, None, None, None).obj
                   ELSE given.values =
                            {Min2(Max2(v, c.start), c.end) :
                                v \in Slice(arg.combination.items,
                                            CountBefore(lc.components, j), c.count)}

C12_Witness ==
    /\ pc = "resolved"
    /\ out.err = ""
    /\ arg.combination.kind = "list"
    /\ Len(arg.combination.items) = NumbersCount + StarsCount + 1
    /\ arg.combination.items[1] > arg.combination.items[2]
    /\ Len(lc.components) = 2
    /\ lc.components[1].name = "stars"
    /\ arg.kwargs = <<>>
    /\ Cardinality(out.obj.components[2].comp.values) = NumbersCount

\* C13 as stated: an operation given a keyword argument that names a
\* component self does not have fails with KeyError and returns nothing
\* (checked on get_combination and copy).
C13_UnknownNameFails ==
    (pc \in {"resolved", "copied"}
        /\ \E i \in 1..Len(arg.kwargs) : ~HasKey(lc.components, arg.kwargs[i].name)) =>
        out.err = "KeyError"

(***************************************************************************)
(* Claims about the arguments of the index functions.                      *)
(***************************************************************************)
\* C14: get_combination_from_rank(rank, length, offset) raises ValueError
\* when rank < 0 or length < 0, and so does the construction of a
\* BoundCombination from a negative int rank; otherwise it returns, [] for
\* length 0 and [rank + offset] for length 1.
C14_UnrankArguments ==
    /\ (pc = "ValueError" /\ ix.combination = None) =>
          (ix.rank < 0 \/ ix.length < 0)
    /\ pc = "unranked" =>
          /\ ix.rank >= 0 /\ ix.length >= 0
          /\ ix.length = 0 => ix.combination[1] = <<>>
          /\ ix.length = 1 => ix.combination[1] = <<ix.rank + ix.offset>>
    /\ pc = "rejected" => ix.rank < 0
    /\ pc = "constructed" => ix.rank >= 0

C14_Witness ==
    /\ pc = "ValueError"
    /\ ix.combination = None
    /\ ix.rank > 0
    /\ ix.length < 0

(***************************************************************************)
(* Scenario "comb": the binomial primitive is called with arguments from   *)
(* -2 .. MaxN, kept in arg.                                                *)
(***************************************************************************)
InitComb ==
    /\ pc = "init"
    /\ arg \in [n : (0 - 2)..MaxN, k : (0 - 2)..MaxN]
    /\ out = Idle
    /\ ix = Idle /\ bc = Idle /\ lc = Idle /\ gen = Idle

\* out = comb(n, k)
CombCall ==
    /\ pc = "init"
    /\ pc' = "comb"
    /\ out' = IF CombRaises(arg.n, arg.k)
              THEN [err |-> "ValueError", value |-> 0]
              ELSE [err |-> "", value |-> comb(arg.n, arg.k)]
    /\ UNCHANGED <<ix, bc, lc, arg, gen>>

NextComb == CombCall

SpecComb == InitComb /\ [][NextComb]_vars

\* C15 as stated: comb(n, k) raises when k > n or an argument is negative,
\* and returns C(n, k) otherwise.
C15_CombRejects ==
    pc = "comb" =>
        IF arg.k > arg.n \/ arg.n < 0 \/ arg.k < 0
        THEN out.err = "ValueError"
        ELSE out.err = "" /\ out.value = Binomial(arg.n, arg.k)

(***************************************************************************)
(* Scenario "order": two combinations of the same length of one universe   *)
(* offset .. offset + n - 1 are ranked; arg keeps them, out their ranks.   *)
(***************************************************************************)
InitOrder ==
    /\ pc = "init"
    /\ \E n \in 0..MaxN, o \in Offsets :
          \E k \in 0..n :
             \E A \in KSubsets(o..(o + n - 1), k), B \in KSubsets(o..(o + n - 1), k) :
                arg = [n |-> n, length |-> k, offset |-> o,
                       A |-> SortedSet(A), B |-> SortedSet(B)]
    /\ out = Idle
    /\ ix = Idle /\ bc = Idle /\ lc = Idle /\ gen = Idle

\* out = get_combination_rank(A, offset), get_combination_rank(B, offset)
RankPair ==
    /\ pc = "init"
    /\ pc' = "ranked"
    /\ out' = [a |-> get_combination_rank(arg.A, arg.offset),
               b |-> get_combination_rank(arg.B, arg.offset)]
    /\ UNCHANGED <<ix, bc, lc, arg, gen>>

NextOrder == RankPair

SpecOrder == InitOrder /\ [][NextOrder]_vars

\* a precedes b in lexicographic order: the first differing position decides
LexBefore(a, b) ==
    \E i \in 1..Len(a) : a[i] < b[i] /\ \A j \in 1..(i - 1) : a[j] = b[j]

\* a precedes b in colexicographic order: the last differing position decides
ColexBefore(a, b) ==
    \E i \in 1..Len(a) : a[i] < b[i] /\ \A j \in (i + 1)..Len(a) : a[j] = b[j]

InitCompare ==
    /\ pc = "ready"
    /\ \E ns \in NumbersShapes :
       \E n \in ComponentsOf(ns), st \in ComponentsOf(StarsShape) :
          lc \in {Lottery(<<>>),
                  Lottery(<<Entry("numbers", n)>>),
                  Lottery(<<Entry("numbers", n), Entry("stars", st)>>),
                  Lottery(<<Entry("stars", st), Entry("numbers", n)>>)}
    /\ arg = Idle /\ out = Idle
    /\ ix = Idle /\ bc = Idle /\ gen = Idle

\* flat lists of distinct values, as many as the components can take
CompareLists == InjectiveLists(NumbersCount + StarsCount, 1..NumbersSize)

\* the queries put to a composite
CompareQueries(self) ==
    {Call("", NoCombination, kwargs) : kwargs \in Kwargs(self, QueryChoices)}
    \cup {Call("", IntCombination(r), <<>>) : r \in (0 - 1)..(LotteryCombinations(self) - 1)}
    \cup {Call("", ListCombination(l), <<>>) : l \in CompareLists}

\* out = lc.equals(combination, **kwargs)
EqualsCall ==
    /\ pc = "ready"
    /\ \E q \in CompareQueries(lc) :
          /\ arg' = [q EXCEPT !.op = "equals"]
          /\ out' = LotteryEquals(lc, q.combination, q.kwargs)
    /\ pc' = "equals"
    /\ UNCHANGED <<ix, bc, lc, gen>>

\* out = lc.intersects(combination, **kwargs)
IntersectsCall ==
    /\ pc = "ready"
    /\ \E q \in CompareQueries(lc) :
          /\ arg' = [q EXCEPT !.op = "intersects"]
          /\ out' = LotteryIntersects(lc, q.combination, q.kwargs)
    /\ pc' = "intersects"
    /\ UNCHANGED <<ix, bc, lc, gen>>

\* out = lc.compares(combination, **kwargs)
ComparesCall ==
    /\ pc = "ready"
    /\ \E q \in CompareQueries(lc) :
          /\ arg' = [q EXCEPT !.op = "compares"]
          /\ out' = LotteryCompares(lc, q.combination, q.kwargs)
          /\ lc' = ComparesSelf(lc, q.combination, q.kwargs)
    /\ pc' = "compares"
    /\ UNCHANGED <<ix, bc, gen>>

\* out = lc.similarity(combination, **kwargs)
SimilarityCall ==
    /\ pc = "ready"
    /\ \E q \in CompareQueries(lc) :
          /\ arg' = [q EXCEPT !.op = "similarity"]
          /\ out' = LotterySimilarity(lc, q.combination, q.kwargs)
    /\ pc' = "similarity"
    /\ UNCHANGED <<ix, bc, lc, gen>>

\* a component of a shape: empty, holding its first values, or its last value
ComponentsToMeet(sh) == SelfComponents(sh) \cup {Component(sh, ListArg(<<sh.end>>))}

InitIntersects ==
    /\ pc = "ready"
    /\ \E ns \in NumbersShapes :
       \E n \in ComponentsToMeet(ns), st \in ComponentsToMeet(StarsShape) :
          lc \in {Lottery(<<>>),
                  Lottery(<<Entry("numbers", n)>>),
                  Lottery(<<Entry("numbers", n), Entry("stars", st)>>),
                  Lottery(<<Entry("stars", st), Entry("numbers", n)>>)}
    /\ arg = Idle /\ out = Idle
    /\ ix = Idle /\ bc = Idle /\ gen = Idle

NextIntersects == IntersectsCall

SpecIntersects == InitIntersects /\ [][NextIntersects]_vars

NextCompare == EqualsCall \/ ComparesCall \/ SimilarityCall

SpecCompare == InitCompare /\ [][NextCompare]_vars

(***************************************************************************)
(* Claims about the comparisons of composites.                             *)
(***************************************************************************)
\* the query of the call kept in arg, resolved against self
Resolved == get_combination(lc, arg.combination, arg.kwargs).obj

\* the values of the component of that name, {} when there is none
ValuesOf(self, name) ==
    IF HasKey(self.components, name) THEN Lookup(self.components, name).values ELSE {}

\* C17 as stated: equals(query) is true exactly when the resolved query has as
\* many components as self, the same total length, and at every position the
\* same component name and equal component values.
C17_EqualsComponentwise ==
    (pc = "equals" /\ out.err = "") =>
        (out.value <=>
            /\ Len(Resolved.components) = Len(lc.components)
            /\ LotteryLength(Resolved) = LotteryLength(lc)
            /\ \A i \in 1..Len(lc.components) :
                  /\ Resolved.components[i].name = lc.components[i].name
                  /\ Resolved.components[i].comp.values = lc.components[i].comp.values)

\* C18: intersects(query) is true exactly when self is not empty, the
\* resolved query is not empty, and every non-empty component of the query
\* shares a value with the component of self of the same name.
C18_IntersectsAll ==
    (pc = "intersects" /\ out.err = "") =>
        (out.value <=>
            /\ LotteryLength(lc) > 0
            /\ LotteryLength(Resolved) > 0
            /\ \A i \in 1..Len(Resolved.components) :
                  LET other == Resolved.components[i] IN
                  other.comp.values # {} =>
                      other.comp.values \cap ValuesOf(lc, other.name) # {})

C18_Witness ==
    /\ pc = "intersects"
    /\ out.err = ""
    /\ ~out.value
    /\ Len(Resolved.components) = 2
    /\ \E i, j \in 1..2 :
          /\ Resolved.components[i].comp.values
                 \cap ValuesOf(lc, Resolved.components[i].name) # {}
          /\ Resolved.components[j].comp.values # {}
          /\ Resolved.components[j].comp.values
                 \cap ValuesOf(lc, Resolved.components[j].name) = {}

RECURSIVE FirstDifference(_, _, _)
\* the sign of the first component of self, in declaration order, that the
\* query names and that differs from the query's; 0 when there is none
FirstDifference(self, other, i) ==
    IF i > Len(self.components) THEN 0
    ELSE LET name == self.components[i].name
             sign == IF HasKey(other.components, name)
                     THEN CombinationCompares(self.components[i].comp,
                                              Lookup(other.components, name))
                     ELSE 0
         IN IF sign # 0 THEN sign ELSE FirstDifference(self, other, i + 1)

\* C19 as stated: compares(query) is 0 for two empty composites, makes the
\* non-empty side the greater when one side is empty, and is otherwise the
\* sign of the first component, in self's declaration order, in which self
\* and the query differ, whatever the order of the keyword arguments.
C19_ComparesInDeclarationOrder ==
    (pc = "compares" /\ out.err = "") =>
        out.value = IF LotteryLength(lc) = 0 /\ LotteryLength(Resolved) = 0 THEN 0
                    ELSE IF LotteryLength(lc) = 0 THEN 0 - 1
                    ELSE IF LotteryLength(Resolved) = 0 THEN 1
                    ELSE FirstDifference(lc, Resolved, 1)

RECURSIVE CommonValues(_, _, _)
\* the number of values self and the query have in common, over the
\* components named in the query
CommonValues(self, other, i) ==
    IF i > Len(other.components) THEN 0
    ELSE Cardinality(other.components[i].comp.values
                        \cap ValuesOf(self, other.components[i].name))
         + CommonValues(self, other, i + 1)

\* C20 as stated: similarity(query) is 1.0 for two empty sides, 0.0 when
\* exactly one side is empty, lies in [0, 1], and for a non-empty self and a
\* non-empty query that is not equal to self (per equals) it is the number of
\* common values of the components named in the query divided by self.length.
C20_SimilarityRatio ==
    (pc = "similarity" /\ out.err = "") =>
        /\ out.value.den > 0
        /\ 0 <= out.value.num /\ out.value.num <= out.value.den
        /\ (LotteryLength(lc) = 0 /\ LotteryLength(Resolved) = 0)
               => out.value.num = out.value.den
        /\ ((LotteryLength(lc) = 0) # (LotteryLength(Resolved) = 0))
               => out.value.num = 0
        /\ (/\ LotteryLength(lc) > 0
            /\ LotteryLength(Resolved) > 0
            /\ ~LotteryEquals(lc, arg.combination, arg.kwargs).value)
               => out.value.num * LotteryLength(lc)
                      = CommonValues(lc, Resolved, 1) * out.value.den

(***************************************************************************)
(* Scenario "intersection": a composite is intersected with a query.       *)
(***************************************************************************)
\* out = lc.intersection(combination, **kwargs)
IntersectionCall ==
    /\ pc = "ready"
    /\ \E q \in CompareQueries(lc) :
          /\ arg' = [q EXCEPT !.op = "intersection"]
          /\ out' = LotteryIntersection(lc, q.combination, q.kwargs)
    /\ pc' = "intersection"
    /\ UNCHANGED <<ix, bc, lc, gen>>

NextIntersection == IntersectionCall

SpecIntersection == InitCompare /\ [][NextIntersection]_vars

\* C21 as stated: intersection(query) carries self's winning-rank table and
\* holds, for each component named in the resolved query, exactly the values
\* common to self's component and the query's, whatever the component's start.
C21_IntersectionValues ==
    (pc = "intersection" /\ out.err = "") =>
        /\ out.obj.winning_ranks = lc.winning_ranks
        /\ Names(out.obj.components) = Names(Resolved.components)
        /\ \A i \in 1..Len(Resolved.components) :
              out.obj.components[i].comp.values
                  = Resolved.components[i].comp.values
                        \cap ValuesOf(lc, Resolved.components[i].name)

(***************************************************************************)
(* Plain Combination objects [values, rank, start] and their methods, for  *)
(* any input x: None, a list, an int, another Combination, a {values,      *)
(* rank} pair.  Methods that may raise return [err, value].                *)
(***************************************************************************)
\* Combination.__init__(values, rank, start)
Combination(values, rank, start) ==
    LET rank1 == IF values.dict /\ rank = None THEN values.drank ELSE rank
        start1 == IF values.kind = "comb" /\ start = None
                  THEN Some(values.obj[1].start) ELSE start
        rank2 == IF values.kind = "comb" /\ rank1 = None
                 THEN values.obj[1].rank ELSE rank1
        items == IF values.kind = "comb" THEN get_values(values.obj[1], start1)
                 ELSE values.items
    IN IF values.kind = "int" /\ values.int # 0
       THEN [err |-> "TypeError", obj |-> <<>>]
       ELSE [err |-> "",
             obj |-> [values |-> Range(items),
                      rank |-> IF items = <<>> THEN None ELSE rank2,
                      start |-> OrElse(start1, DEFAULT_START)]]

\* isinstance(x, int) / isinstance(x, Combination)
IsInt(x) == ~x.dict /\ x.kind = "int"
IsCombination(x) == ~x.dict /\ x.kind = "comb"

\* the operand of compares: x itself, or Combination(x, start=self._start)
Operand(self, x) ==
    IF IsCombination(x) THEN [err |-> "", obj |-> x.obj[1]]
    ELSE Combination(x, None, Some(self.start))

\* mutant: equal ranks compare as 0 whatever the values
compares_by_rank(self, x) ==
    IF IsInt(x)
    THEN [err |-> "", value |-> IF RankValue(self) = x.int THEN 0
                                ELSE IF RankValue(self) > x.int THEN 1 ELSE 0 - 1]
    ELSE [err |-> Operand(self, x).err,
          value |-> IF Operand(self, x).err # "" THEN 0
                    ELSE IF RankValue(self) = RankValue(Operand(self, x).obj) THEN 0
                    ELSE IF RankValue(self) > RankValue(Operand(self, x).obj) THEN 1
                    ELSE 0 - 1]

\* Combination.compares(combination)
compares(self, x) ==
    IF IsInt(x)
    THEN IF RankReadRaises(self) THEN [err |-> "ValueError", value |-> 0]
         ELSE [err |-> "", value |-> IF RankValue(self) = x.int THEN 0
                                     ELSE IF RankValue(self) > x.int THEN 1 ELSE 0 - 1]
    ELSE LET other == Operand(self, x) IN
         IF other.err # "" THEN [err |-> other.err, value |-> 0]
         ELSE IF SortedSet(self.values) = get_values(other.obj, Some(self.start))
         THEN [err |-> "", value |-> 0]
         ELSE IF RankReadRaises(self) \/ RankReadRaises(other.obj)
         THEN [err |-> "ValueError", value |-> 0]
         ELSE [err |-> "", value |-> IF RankValue(self) - RankValue(other.obj) > 0
                                     THEN 1 ELSE 0 - 1]

\* whether compares(x) reads self.rank (and stores it in _rank)
ComparesReadsRank(self, x) ==
    \/ IsInt(x)
    \/ /\ Operand(self, x).err = ""
       /\ SortedSet(self.values) # get_values(Operand(self, x).obj, Some(self.start))

(***************************************************************************)
(* Scenario "plain": a Combination is compared, intersected and matched    *)
(* with an input x.  bc is the Combination, arg the input, out the outcome.*)
(***************************************************************************)
\* the universe of a Combination of a given start
PlainUniverse(start) == start..(start + NumbersSize - 1)

\* Combination(values, start=) and Combination(values, rank, start=)
PlainCombinations ==
    UNION {{Combination(ListArg(SortedSet(T)), r, Some(s)).obj :
               T \in SUBSET PlainUniverse(s), r \in {None, Some(MaxIntRank)}} :
             s \in 0..MaxStart}

\* the inputs: None, lists, ranks, Combinations of any start, {values, rank} pairs
PlainInputs ==
    {NoneArg}
    \cup {ListArg(SortedSet(T)) : T \in SUBSET (0..(MaxStart + NumbersSize - 1))}
    \cup {IntArg(r) : r \in 0..(MaxIntRank + 1)}
    \cup {CombArg(c) : c \in PlainCombinations}
    \cup {DictArg(ListArg(SortedSet(T)), Some(MaxIntRank)) :
             T \in SUBSET PlainUniverse(DEFAULT_START)}

InitPlain ==
    /\ pc = "ready"
    /\ bc \in PlainCombinations
    /\ arg = Idle /\ out = Idle
    /\ ix = Idle /\ lc = Idle /\ gen = Idle

\* out = bc.compares(x)
PlainCompares ==
    /\ pc = "ready"
    /\ \E x \in PlainInputs :
          /\ arg' = x
          /\ out' = compares(bc, x)
          /\ bc' = IF ComparesReadsRank(bc, x) /\ ~RankReadRaises(bc)
                   THEN [bc EXCEPT !.rank = Some(RankValue(bc))]
                   ELSE bc
    /\ pc' = "compares"
    /\ UNCHANGED <<ix, lc, gen>>

NextPlainCompares == PlainCompares

SpecPlainCompares == InitPlain /\ [][NextPlainCompares]_vars

\* the sign of an integer
Sign(n) == IF n > 0 THEN 1 ELSE IF n < 0 THEN 0 - 1 ELSE 0

\* the values of x in self's base
OperandValues == get_values(Operand(bc, arg).obj, Some(bc.start))

\* C22 as stated: compares(x) is in {-1, 0, 1}; for an int x it is the sign of
\* self.rank - x; otherwise it is 0 exactly when the value sets are equal and
\* the sign of self.rank - x.rank in every other case.
C22_ComparesSign ==
    (pc = "compares" /\ out.err = "") =>
        /\ out.value \in {0 - 1, 0, 1}
        /\ IF IsInt(arg) THEN out.value = Sign(RankValue(bc) - arg.int)
           ELSE /\ (out.value = 0) <=> (SortedSet(bc.values) = OperandValues)
                /\ SortedSet(bc.values) # OperandValues
                      => out.value = Sign(RankValue(bc) - RankValue(Operand(bc, arg).obj))

\* C22 amended: as above, but when the value sets differ the result is 1 if
\* self.rank > x.rank and -1 otherwise, so -1 also when the two ranks are equal.
C22_ComparesTieIsLess ==
    (pc = "compares" /\ out.err = "") =>
        /\ out.value \in {0 - 1, 0, 1}
        /\ IF IsInt(arg) THEN out.value = Sign(RankValue(bc) - arg.int)
           ELSE /\ (out.value = 0) <=> (SortedSet(bc.values) = OperandValues)
                /\ (out.value = 1) <=>
                      /\ SortedSet(bc.values) # OperandValues
                      /\ RankValue(bc) > RankValue(Operand(bc, arg).obj)

C22_Witness ==
    /\ pc = "compares"
    /\ out.err = ""
    /\ ~IsInt(arg)
    /\ bc.values # {}
    /\ SortedSet(bc.values) # OperandValues
    /\ RankValue(bc) = RankValue(Operand(bc, arg).obj)
    /\ out.value = 0 - 1

\* the values of x as includes / intersects / intersection take them: a
\* Combination re-based to self._start, [] for a falsy x
Normalised(self, x) ==
    IF IsCombination(x) THEN Range(get_values(x.obj[1], Some(self.start)))
    ELSE Range(x.items)

\* Combination.intersects(combination)
intersects(self, x) == self.values \cap Normalised(self, x) # {}

\* Combination.includes(combination), combination not a single number
includes(self, x) == Normalised(self, x) \subseteq self.values

\* Combination.intersection(combination):
\* Combination(self._values.intersection(combination), self._start)
intersection(self, x) ==
    Combination(ListArg(SortedSet(self.values \cap Normalised(self, x))),
                Some(self.start), None).obj

\* the inputs of the set operations: None, lists, Combinations of any start
SetInputs == {x \in PlainInputs : ~x.dict /\ x.kind # "int"}

\* out = bc.intersection(x), bc.intersects(x), bc.includes(bc.intersection(x))
PlainIntersection ==
    /\ pc = "ready"
    /\ \E x \in SetInputs :
          /\ arg' = x
          /\ out' = [intersection |-> intersection(bc, x),
                     intersects |-> intersects(bc, x),
                     includes |-> includes(bc, CombArg(intersection(bc, x)))]
    /\ pc' = "intersection"
    /\ UNCHANGED <<ix, bc, lc, gen>>

NextPlainSets == PlainIntersection

SpecPlainSets == InitPlain /\ [][NextPlainSets]_vars

\* C23 as stated: intersection(x) holds exactly the values of self that occur
\* in x (re-based to self.start), its start is self.start, self includes it,
\* intersects(x) is true exactly when it is not empty, and an empty or None x
\* gives the empty combination and never intersects.
C23_IntersectionInBase ==
    pc = "intersection" =>
        /\ out.intersection.values = bc.values \cap Normalised(bc, arg)
        /\ out.intersection.start = bc.start
        /\ out.includes
        /\ out.intersects <=> out.intersection.values # {}
        /\ Normalised(bc, arg) = {} => (out.intersection.values = {} /\ ~out.intersects)

(***************************************************************************)
(* Scenario "supplied": a Combination or a BoundCombination is built from  *)
(* non-empty values and a rank given with them, then copied without        *)
(* arguments and rebuilt from the instance, any number of times.  bc is    *)
(* the current object, arg keeps the rank that was supplied.               *)
(***************************************************************************)
\* Combination.copy(values, rank, start); values = None is the absent argument
CombinationCopy(self, values, rank, start) ==
    LET start1 == OrElse(start, self.start)
        values1 == IF values = None THEN ListArg(get_values(self, Some(start1)))
                   ELSE values[1]
        rank1 == IF values = None
                 THEN (IF self.rank # None THEN self.rank ELSE rank)
                 ELSE rank
    IN Combination(values1, rank1, Some(start1))

\* the two ways of giving a rank with the values: a pair, or the rank argument
WithRank(l, r) ==
    {[values |-> DictArg(ListArg(l), Some(r)), rank |-> None],
     [values |-> ListArg(l), rank |-> Some(r)]}

SuppliedRanks == {0, MaxIntRank}

InitSupplied ==
    /\ pc = "init"
    /\ bc = Idle /\ arg = Idle
    /\ ix = Idle /\ lc = Idle /\ out = Idle /\ gen = Idle

IsBound(o) == "end" \in DOMAIN o

\* bc = Combination({values, rank}, start=) or Combination(values, rank, start=)
BuildPlain ==
    /\ pc = "init"
    /\ \E s \in OptionOf(0..MaxStart), r \in SuppliedRanks :
       \E l \in ListsUpTo(MaxLen, 0..MaxEnd) \ {<<>>} :
       \E a \in WithRank(l, r) :
          /\ bc' = Combination(a.values, a.rank, s).obj
          /\ arg' = [rank |-> r]
    /\ pc' = "built"
    /\ UNCHANGED <<ix, lc, out, gen>>

\* bc = BoundCombination({values, rank}, start=, end=, count=) or
\*      BoundCombination(values, rank, start=, end=, count=)
BuildBound ==
    /\ pc = "init"
    /\ \E sh \in Shapes, r \in SuppliedRanks :
       \E l \in ListsUpTo(MaxLen, 0..MaxEnd) \ {<<>>} :
       \E a \in WithRank(l, r) :
          /\ sh.start <= sh.end
          /\ bc' = BoundCombination(a.values, a.rank, Some(sh.start), Some(sh.end),
                                    Some(sh.count), None).obj
          /\ arg' = [rank |-> r]
    /\ pc' = "built"
    /\ UNCHANGED <<ix, lc, out, gen>>

Built == pc \in {"built", "copied", "rebuilt"}

\* bc = bc.copy()
CopyNoArguments ==
    /\ Built
    /\ bc' = IF IsBound(bc) THEN BoundCopy(bc, None, None, None, None, None, None).obj
             ELSE CombinationCopy(bc, None, None, None).obj
    /\ pc' = "copied"
    /\ UNCHANGED <<ix, lc, arg, out, gen>>

\* bc = Combination(bc) or Combination(bc, start=)
RebuildPlain ==
    /\ Built
    /\ \E s \in OptionOf(0..MaxStart) : bc' = Combination(CombArg(bc), None, s).obj
    /\ pc' = "rebuilt"
    /\ UNCHANGED <<ix, lc, arg, out, gen>>

\* bc = BoundCombination(bc, start=, end=, count=)
RebuildBound ==
    /\ Built
    /\ \E sh \in Shapes :
          /\ sh.start <= sh.end
          /\ bc' = BoundCombination(CombArg(bc), None, Some(sh.start), Some(sh.end),
                                    Some(sh.count), None).obj
    /\ pc' = "rebuilt"
    /\ UNCHANGED <<ix, lc, arg, out, gen>>

NextSupplied ==
    BuildPlain \/ BuildBound \/ CopyNoArguments \/ RebuildPlain \/ RebuildBound

SpecSupplied == InitSupplied /\ [][NextSupplied]_vars

\* C24 as stated: an object built from non-empty values and a supplied rank,
\* its copies and the objects constructed from it report the supplied rank.
C24_SuppliedRankKept ==
    Built => RankValue(bc) = arg.rank

\* C24 amended: ... as long as the object keeps at least one value; a
\* BoundCombination whose count is 0 keeps no value, drops the rank with the
\* values and reports 0.
C24_SuppliedRankKeptWithValues ==
    Built => IF bc.values # {} THEN bc.rank = Some(arg.rank)
             ELSE bc.rank = None /\ RankValue(bc) = 0

C24_Witness ==
    /\ pc = "rebuilt"
    /\ IsBound(bc)
    /\ bc.values # {}
    /\ arg.rank = MaxIntRank
    /\ RankValue(bc) = MaxIntRank
    /\ get_combination_rank(SortedSet(bc.values), bc.start) # MaxIntRank

(***************************************************************************)
(* Scenario "life": an object built from values (possibly none) is read    *)
(* (rank, hash and the comparisons store _rank) and copied without         *)
(* arguments.  bc is the object, out its copy.                             *)
(***************************************************************************)
LifeObjects ==
    {BoundCombination(ListArg(l), None, Some(sh.start), Some(sh.end),
                      Some(sh.count), None).obj :
        sh \in {x \in Shapes : x.start <= x.end}, l \in ListsUpTo(MaxLen, 0..MaxEnd)}
    \cup UNION {{Combination(ListArg(l), None, Some(s)).obj :
                    l \in ListsUpTo(MaxLen, s..(MaxEnd + 1))} : s \in 0..MaxStart}

InitLife ==
    /\ pc = "alive"
    /\ bc \in LifeObjects
    /\ out = Idle
    /\ ix = Idle /\ lc = Idle /\ arg = Idle /\ gen = Idle

\* bc.rank, hash(bc), bc.compares(int): _rank is computed and stored
LifeRead ==
    /\ pc \in {"alive", "read"}
    /\ bc' = [bc EXCEPT !.rank = Some(RankValue(bc))]
    /\ pc' = "read"
    /\ UNCHANGED <<ix, lc, arg, out, gen>>

\* out = bc.copy()
LifeCopy ==
    /\ pc \in {"alive", "read"}
    /\ out' = IF IsBound(bc) THEN BoundCopy(bc, None, None, None, None, None, None).obj
              ELSE CombinationCopy(bc, None, None, None).obj
    /\ pc' = IF pc = "alive" THEN "copied" ELSE "copied_after_read"
    /\ UNCHANGED <<ix, bc, lc, arg, gen>>

NextLife == LifeRead \/ LifeCopy

SpecLife == InitLife /\ [][NextLife]_vars

\* C25 as stated: whatever was read before, copy() returns an object with the
\* values, length, start, end, count and combinations of the original.
C25_CopyIsSame ==
    pc \in {"copied", "copied_after_read"} =>
        /\ out.values = bc.values
        /\ Cardinality(out.values) = Cardinality(bc.values)
        /\ out.start = bc.start
        /\ IsBound(bc) => /\ IsBound(out)
                          /\ out.end = bc.end
                          /\ out.count = bc.count
                          /\ out.combinations = bc.combinations

(***************************************************************************)
(* utils/timeout.py and utils/cache.py: Timeout, MemoryCache, TimeoutCache *)
(***************************************************************************)
MaxClock == 3
MaxTimeout == 2
MaxCalls == 3

\* Timeout.__init__(seconds, start): _timestamp = time.time()
Timeout(seconds, started, now) ==
    [seconds |-> seconds, started |-> started, timestamp |-> now]

\* Timeout.elapsed
TimeoutElapsed(t, now) == IF ~t.started THEN 0 ELSE now - t.timestamp

\* Timeout.expired
TimeoutExpired(t, now) == TimeoutElapsed(t, now) >= t.seconds

\* Timeout.start: _started = True; reset()
TimeoutStart(t, now) == [t EXCEPT !.started = TRUE, !.timestamp = now]

\* Timeout.stop
TimeoutStop(t) == [t EXCEPT !.started = FALSE]

\* MemoryCache.__init__(data, loader, transformer)
MemoryCache(data) ==
    [kind |-> "memory", cache |-> data, loaded |-> data # None, timeout |-> None]

\* TimeoutCache.__init__(data, loader, transformer, cache_timeout)
TimeoutCache(data, cache_timeout, now) ==
    [kind |-> "timeout", cache |-> data, loaded |-> data # None,
     timeout |-> Timeout(cache_timeout, data # None, now)]

\* mutant: the refresh condition of MemoryCache used by TimeoutCache as well
refresh_condition_no_timeout(c, now) == ~c.loaded

\* MemoryCache._refresh_condition / TimeoutCache._refresh_condition
refresh_condition(c, now) ==
    ~c.loaded \/ (c.kind = "timeout" /\ TimeoutExpired(c.timeout, now))

\* the loader of the tests returns the number of the call; the transformer
\* marks what it was given
Loaded(n) == Some([call |-> n, transformed |-> FALSE])

Transformed(data) == Some([call |-> data[1].call, transformed |-> TRUE])

\* _read: transformer(loader()), and TimeoutCache starts the timeout
CacheRead(c, n, now) ==
    [c EXCEPT !.cache = Transformed(Loaded(n)),
              !.timeout = IF c.kind = "timeout" THEN TimeoutStart(@, now) ELSE @]

\* _write
CacheWrite(c, data, now) ==
    [c EXCEPT !.cache = data,
              !.timeout = IF c.kind = "timeout" THEN TimeoutStart(@, now) ELSE @]

\* _clear
CacheClear(c) ==
    [c EXCEPT !.cache = None,
              !.timeout = IF c.kind = "timeout" THEN TimeoutStop(@) ELSE @]

(***************************************************************************)
(* Scenario "cache": gen holds the cache object, the clock, the number of  *)
(* loader calls so far, and what is remembered of the past: fresh (loaded  *)
(* or set and not cleared since), since (time of the last refresh or set), *)
(* run (data returned by the last load() with no clear or forced load      *)
(* since), held (the same, also forgotten on set).  arg is the call, out   *)
(* its result: data returned, loader and transformer invocations, and      *)
(* fresh / since / run / held as they were before the call.                *)
(***************************************************************************)
CacheData == {None, Some("x")}

InitCache ==
    /\ pc = "cache"
    /\ \E data \in CacheData, kind \in {"memory", "timeout"}, t \in 0..MaxTimeout :
         gen = [cache |-> IF kind = "memory" THEN MemoryCache(data)
                          ELSE TimeoutCache(data, t, 0),
                now |-> 0, calls |-> 0,
                fresh |-> data # None, since |-> 0,
                run |-> None, held |-> None]
    /\ arg = Idle /\ out = Idle
    /\ ix = Idle /\ bc = Idle /\ lc = Idle

Before == [fresh |-> gen.fresh, since |-> gen.since, run |-> gen.run,
           held |-> gen.held, now |-> gen.now]

\* cache.load(force)
Load ==
    \E force \in BOOLEAN :
      LET c == gen.cache
          refresh == force \/ refresh_condition(c, gen.now)
          n == gen.calls + 1
          c2 == IF refresh THEN [CacheRead(c, n, gen.now) EXCEPT !.loaded = TRUE] ELSE c
      IN /\ pc = "cache"
         /\ gen.calls < MaxCalls
         /\ arg' = [op |-> "load", force |-> force]
         /\ out' = [value |-> c2.cache,
                    loader |-> IF refresh THEN 1 ELSE 0,
                    transformer |-> IF refresh THEN 1 ELSE 0,
                    before |-> Before]
         /\ gen' = [gen EXCEPT !.cache = c2,
                               !.calls = IF refresh THEN n ELSE @,
                               !.fresh = IF refresh THEN TRUE ELSE @,
                               !.since = IF refresh THEN gen.now ELSE @,
                               !.run = IF force THEN None ELSE Some(c2.cache),
                               !.held = IF force THEN None ELSE Some(c2.cache)]
         /\ UNCHANGED <<pc, ix, bc, lc>>

\* cache.set(data)
Set ==
    \E data \in CacheData :
      /\ pc = "cache"
      /\ arg' = [op |-> "set", data |-> data]
      /\ out' = [value |-> None, loader |-> 0, transformer |-> 0, before |-> Before]
      /\ gen' = [gen EXCEPT !.cache = [CacheWrite(@, data, gen.now) EXCEPT !.loaded = TRUE],
                            !.fresh = TRUE,
                            !.since = gen.now,
                            !.held = None]
      /\ UNCHANGED <<pc, ix, bc, lc>>

\* cache.clear()
Clear ==
    /\ pc = "cache"
    /\ arg' = [op |-> "clear"]
    /\ out' = [value |-> None, loader |-> 0, transformer |-> 0, before |-> Before]
    /\ gen' = [gen EXCEPT !.cache = [CacheClear(@) EXCEPT !.loaded = FALSE],
                          !.fresh = FALSE,
                          !.run = None,
                          !.held = None]
    /\ UNCHANGED <<pc, ix, bc, lc>>

\* cache.load_raw(): the loader alone, the cache is not touched
LoadRaw ==
    /\ pc = "cache"
    /\ gen.calls < MaxCalls
    /\ arg' = [op |-> "load_raw"]
    /\ out' = [value |-> Loaded(gen.calls + 1), loader |-> 1, transformer |-> 0,
               before |-> Before]
    /\ gen' = [gen EXCEPT !.calls = @ + 1]
    /\ UNCHANGED <<pc, ix, bc, lc>>

\* time passes
Tick ==
    /\ pc = "cache"
    /\ gen.now < MaxClock
    /\ gen' = [gen EXCEPT !.now = @ + 1]
    /\ UNCHANGED <<pc, ix, bc, lc, arg, out>>

NextCache == Load \/ Set \/ Clear \/ LoadRaw \/ Tick

SpecCache == InitCache /\ [][NextCache]_vars

\* the timeout of a TimeoutCache had run out when the recorded call was made
HadExpired ==
    /\ gen.cache.kind = "timeout"
    /\ out.before.now - out.before.since >= gen.cache.timeout.seconds

\* C26 (first part): load(force) invokes the loader and the transformer if and
\* only if force is true, or the cache is not loaded (never loaded or set, or
\* cleared since), or the timeout of a TimeoutCache has expired since the last
\* refresh or set.
C26_LoaderInvokedIffRefresh ==
    (arg # Idle /\ arg.op = "load") =>
        /\ out.loader = out.transformer
        /\ out.loader = 1 <=> (arg.force \/ ~out.before.fresh \/ HadExpired)

\* C26 (second part, amended): a load() that follows a load() with no clear,
\* forced load, set or expiry in between invokes nothing and returns the
\* same data.
C26_ConsecutiveLoadsUnlessSet ==
    (arg # Idle /\ arg.op = "load" /\ ~arg.force
        /\ out.before.held # None /\ ~HadExpired) =>
        /\ out.loader = 0
        /\ out.value = out.before.held[1]

\* C26 amended: both parts
C26_LoadRefreshes == C26_LoaderInvokedIffRefresh /\ C26_ConsecutiveLoadsUnlessSet

\* C26 as stated: a load() that follows a load() with no clear, forced load
\* or expiry in between invokes nothing and returns the same data.
C26_ConsecutiveLoads ==
    /\ C26_LoaderInvokedIffRefresh
    /\ (arg # Idle /\ arg.op = "load" /\ ~arg.force
           /\ out.before.run # None /\ ~HadExpired) =>
           /\ out.loader = 0
           /\ out.value = out.before.run[1]

\* a TimeoutCache that was loaded, then expired, is loaded again; and a second
\* load() was served from the cache
C26_Witness ==
    /\ arg # Idle /\ arg.op = "load" /\ ~arg.force
    /\ gen.cache.kind = "timeout"
    /\ out.before.fresh /\ HadExpired
    /\ out.loader = 1
    /\ gen.calls >= 2

(***************************************************************************)
(* Scenario "derive": bc starts as an object built from values alone and   *)
(* is replaced, step after step, by an object derived from it (a copy with *)
(* another start, end or count, a re-based construction, an intersection), *)
(* with reads of rank in between.                                          *)
(***************************************************************************)
InitDerive ==
    /\ pc = "built"
    /\ bc \in LifeObjects
    /\ ix = Idle /\ lc = Idle /\ arg = Idle /\ out = Idle /\ gen = Idle

Derivable == pc \in {"built", "read", "copied", "rebuilt", "intersection"}

\* bc.rank
DeriveRead ==
    /\ Derivable
    /\ ~RankReadRaises(bc)
    /\ bc' = [bc EXCEPT !.rank = Some(RankValue(bc))]
    /\ pc' = "read"
    /\ UNCHANGED <<ix, lc, arg, out, gen>>

\* bc = bc.copy(start=, end=, count=)
DeriveCopy ==
    /\ Derivable
    /\ \E s \in OptionOf(0..MaxStart), e \in OptionOf(0..MaxEnd),
          c \in OptionOf(0..MaxCount) :
          IF IsBound(bc)
          THEN LET res == BoundCopy(bc, None, None, s, e, c, None)
               IN /\ OrElse(s, bc.start) <= OrElse(e, bc.end)
                  /\ res.err = ""
                  /\ bc' = res.obj
          ELSE /\ e = None /\ c = None
               /\ bc' = CombinationCopy(bc, None, None, s).obj
    /\ pc' = "copied"
    /\ UNCHANGED <<ix, lc, arg, out, gen>>

\* bc = Combination(bc, start=) / BoundCombination(bc, start=, end=, count=)
DeriveRebuild ==
    /\ Derivable
    /\ \/ \E sh \in Shapes :
            /\ sh.start <= sh.end
            /\ bc' = BoundCombination(CombArg(bc), None, Some(sh.start), Some(sh.end),
                                      Some(sh.count), None).obj
       \/ \E s \in 0..MaxStart :
            bc' = Combination(CombArg(bc), None, Some(s)).obj
    /\ pc' = "rebuilt"
    /\ UNCHANGED <<ix, lc, arg, out, gen>>

\* bc = bc.intersection(values)
DeriveIntersection ==
    /\ Derivable
    /\ \E l \in ListsUpTo(MaxLen, 0..(MaxEnd + 1)) :
          bc' = intersection(bc, ListArg(l))
    /\ pc' = "intersection"
    /\ UNCHANGED <<ix, lc, arg, out, gen>>

NextDerive == DeriveRead \/ DeriveCopy \/ DeriveRebuild \/ DeriveIntersection

SpecDerive == InitDerive /\ [][NextDerive]_vars

\* C27 as stated: every object derived from one built without a rank reports
\* the rank of its own values at its own start.
C27_RankOfOwnValues ==
    ~RankReadRaises(bc) =>
        RankValue(bc) = get_combination_rank(SortedSet(bc.values), bc.start)

(***************************************************************************)
(* Scenario "hash": two objects of the same class built from values; out   *)
(* holds a == b, hash(a) and hash(b).  a is bc (single objects) or lc      *)
(* (composites), b is in arg.                                              *)
(***************************************************************************)
\* the stars component of a composite, over the universe of the draw or over
\* one value more
HashStarsShapes == {StarsShape, [StarsShape EXCEPT !.end = @ + 1]}

HashComposites ==
    UNION {{Lottery(<<>>),
            Lottery(<<Entry("numbers", n)>>),
            Lottery(<<Entry("numbers", n), Entry("stars", st)>>)} :
           n \in UNION {ComponentsOf(ns) : ns \in NumbersShapes},
           st \in UNION {ComponentsOf(ss) : ss \in HashStarsShapes}}

InitHash ==
    /\ pc = "pair"
    /\ \/ bc \in LifeObjects /\ lc = Idle
       \/ bc = Idle /\ lc \in HashComposites
    /\ arg = Idle /\ out = Idle
    /\ ix = Idle /\ gen = Idle

\* a == b, hash(a), hash(b) for two Combinations or two BoundCombinations;
\* the hashes store _rank in a
HashSingles ==
    /\ pc = "pair" /\ bc # Idle
    /\ \E b \in {o \in LifeObjects : IsBound(o) = IsBound(bc)} :
          /\ arg' = CombArg(b)
          /\ out' = [equal |-> CombinationEquals(bc, b),
                     self |-> RankValue(bc),
                     other |-> RankValue(b)]
    /\ bc' = [bc EXCEPT !.rank = Some(RankValue(bc))]
    /\ pc' = "singles"
    /\ UNCHANGED <<ix, lc, gen>>

\* a == b, hash(a), hash(b) for two composites
HashPair ==
    /\ pc = "pair" /\ lc # Idle
    /\ \E b \in HashComposites :
          /\ arg' = LotteryArg(b)
          /\ out' = [equal |-> LotteryEquals(lc, LotteryArg(b), <<>>).value,
                     self |-> LotteryRank(lc),
                     other |-> LotteryRank(b)]
    /\ pc' = "composites"
    /\ UNCHANGED <<ix, bc, lc, gen>>

NextHash == HashSingles \/ HashPair

SpecHash == InitHash /\ [][NextHash]_vars

\* C28 as stated: objects that compare equal have the same hash
C28_EqualHasSameHash ==
    (pc \in {"singles", "composites"} /\ out.equal) => out.self = out.other

(***************************************************************************)
(* Scenario "mutual": two objects a and b built from values are compared   *)
(* both ways; out holds a.compares(b), b.compares(a) and a.equals(b).      *)
(* a is bc (single objects) or lc (composites), b is in arg.               *)
(***************************************************************************)
\* a.compares(b), b.compares(a), a.equals(b) for single objects
MutualSingles ==
    /\ pc = "pair" /\ bc # Idle
    /\ \E b \in {o \in LifeObjects : IsBound(o) = IsBound(bc)} :
          /\ arg' = CombArg(b)
          /\ out' = [ab |-> compares(bc, CombArg(b)),
                     ba |-> compares(b, CombArg(bc)),
                     equal |-> CombinationEquals(bc, b)]
          /\ bc' = IF ComparesReadsRank(bc, CombArg(b)) /\ ~RankReadRaises(bc)
                   THEN [bc EXCEPT !.rank = Some(RankValue(bc))]
                   ELSE bc
    /\ pc' = "singles"
    /\ UNCHANGED <<ix, lc, gen>>

\* a.compares(b), b.compares(a), a.equals(b) for composites of the same
\* components
MutualPair ==
    /\ pc = "pair" /\ lc # Idle
    /\ \E b \in {o \in HashComposites : Names(o.components) = Names(lc.components)} :
          /\ arg' = LotteryArg(b)
          /\ out' = [ab |-> LotteryCompares(lc, LotteryArg(b), <<>>),
                     ba |-> LotteryCompares(b, LotteryArg(lc), <<>>),
                     equal |-> LotteryEquals(lc, LotteryArg(b), <<>>).value]
          /\ lc' = ComparesSelf(lc, LotteryArg(b), <<>>)
    /\ pc' = "composites"
    /\ UNCHANGED <<ix, bc, gen>>

NextMutual == MutualSingles \/ MutualPair

SpecMutual == InitHash /\ [][NextMutual]_vars

\* C29 as stated: a.compares(b) = -(b.compares(a)), and a.compares(b) = 0
\* exactly when a.equals(b)
C29_Antisymmetric ==
    pc \in {"singles", "composites"} =>
        /\ out.ab.err = "" /\ out.ba.err = ""
        /\ out.ab.value = 0 - out.ba.value
        /\ out.ab.value = 0 <=> out.equal

(***************************************************************************)
(* Scenario "decode": a composite whose components all have at least one   *)
(* combination is asked for the combination of an integer, below 0, within *)
(* and beyond its number of combinations.  lc is the composite, arg the    *)
(* integer, out the composite returned.                                    *)
(***************************************************************************)
\* a component that takes no value: one combination, the empty one
NoneShape == [StarsShape EXCEPT !.count = 0]

DecodeComposites ==
    UNION {{Lottery(<<>>),
            Lottery(<<Entry("numbers", n)>>),
            Lottery(<<Entry("numbers", n), Entry("stars", st)>>),
            Lottery(<<Entry("stars", st), Entry("numbers", n)>>)} :
           n \in UNION {ComponentsOf(ns) : ns \in NumbersShapes},
           st \in UNION {ComponentsOf(ss) : ss \in HashStarsShapes \cup {NoneShape}}}

InitDecode ==
    /\ pc = "ready"
    /\ lc \in DecodeComposites
    /\ arg = Idle /\ out = Idle
    /\ ix = Idle /\ bc = Idle /\ gen = Idle

\* the integers put to a composite
DecodeInts(self) ==
    (0 - LotteryCombinations(self) - 1)..(2 * LotteryCombinations(self))

\* out = lc.get_combination(r)
Decode ==
    /\ pc = "ready"
    /\ \E r \in DecodeInts(lc) :
          /\ arg' = IntCombination(r)
          /\ out' = get_combination(lc, IntCombination(r), <<>>)
    /\ pc' = "decoded"
    /\ UNCHANGED <<ix, bc, lc, gen>>

NextDecode == Decode

SpecDecode == InitDecode /\ [][NextDecode]_vars

\* C30: for every integer r, below 0 and beyond the number of combinations
\* included, get_combination(r) on a composite whose components all have at
\* least one combination succeeds and returns a composite of the same
\* components, all full, whose combined rank is r mod combinations.
C30_DecodeWraps ==
    (pc = "decoded" /\ lc.components # <<>>) =>
        /\ out.err = ""
        /\ Names(out.obj.components) = Names(lc.components)
        /\ \A i \in 1..Len(out.obj.components) :
              LET c == out.obj.components[i].comp
              IN /\ Cardinality(c.values) = c.count
                 /\ c.values \subseteq c.start..c.end
        /\ LotteryRank(out.obj) = arg.int % LotteryCombinations(lc)

\* an integer outside 0..combinations-1 was decoded by a composite of two
\* components and came back as another rank
C30_Witness ==
    /\ pc = "decoded"
    /\ Len(lc.components) = 2
    /\ arg.int \notin 0..(LotteryCombinations(lc) - 1)
    /\ out.err = ""
    /\ LotteryRank(out.obj) # arg.int
    /\ LotteryRank(out.obj) = arg.int % LotteryCombinations(lc)

=============================================================================
